---- MODULE Spec2Model ----
(***************************************************************************)
(* Model of the negotiation service's dialogue providers                   *)
(* (services/negotiation/providers).                                       *)
(*                                                                         *)
(* A turn text is a sequence of words; a word is the unit in which the     *)
(* regular expressions of the providers are evaluated (Lits gives the      *)
(* pattern literals that occur inside a word, case-insensitively, and the  *)
(* word "\n" is a line break, which '.' does not match).                   *)
(*                                                                         *)
(* Events are records carrying the keyword arguments passed at the yield   *)
(* site of the provider.  providers/base.py declares the event dataclasses *)
(* with another field set (Safety(flag, detail, severity)); the model      *)
(* follows the call sites of mock_local.py and gemini_veo3.py.             *)
(***************************************************************************)
EXTENDS Integers, Sequences, FiniteSets, TLC

VARIABLES provider, turns, world_context, strict, pc, events, intent, calls, err,
          subs_q, intent_q, subtitle_task, intent_task, video_source,
          scores_in, overall,
          score_call, score_reply,
          second,
          sessions, reply, ended, clock,
          bq, tasks, log,
          pure_call, pure_reply

\* the state of a Veo3 pass: its queues, its producer tasks and its video source
veo_vars == <<subs_q, intent_q, subtitle_task, intent_task, video_source>>

\* the argument and the result of a calculate_overall_score call
scoring_vars == <<scores_in, overall>>

\* the arguments and the result of a validate_and_score_intent call
validation_vars == <<score_call, score_reply>>

\* a second stream_dialogue call on the same MockLocalProvider instance
second_vars == <<second>>

\* the SessionManager: self.sessions (a dict, in insertion order), the outcome
\* of the last call, the ids on which end_session has acted since they were
\* created, and datetime.now() in units of the session timeout
session_vars == <<sessions, reply, ended, clock>>

\* what a pass of a provider leaves alone
\* a BoundedAIO used on its own: the queue with its waiting lists, the tasks
\* that call it, and the record of what was accepted and delivered
queue_vars == <<bq, tasks, log>>

\* the arguments and the outcome of a call of one of the pure functions
\* validate_or_raise / is_valid, score_intent, check_content
call_vars == <<pure_call, pure_reply>>

aux_vars == <<scoring_vars, validation_vars, second_vars, session_vars, queue_vars,
              call_vars>>

\* the state of a pass of a provider
provider_vars == <<provider, turns, world_context, strict, pc, events, intent, calls, err,
                   veo_vars>>

vars == <<provider_vars, aux_vars>>

(***************************************************************************)
(* Bounds of the input space                                               *)
(***************************************************************************)
MaxChunks == 2
MaxPrior == 1

None == "None"
NoId == "<no id>"

(***************************************************************************)
(* Input texts: concatenations of at most MaxChunks chunks                 *)
(***************************************************************************)
Chunks ==
    { <<"grant", "access", "if", "withdraw", "troops">>,
      <<"grant", "access", "\n", "if", "withdraw", "troops">>,
      <<"ceasefire", "now", "or else">>,
      <<"deadline", "final">>,
      <<"trade">>,
      <<"WAR">>,
      <<"destroy">>,
      <<"peace">>,
      <<"kill">> }

RECURSIVE ChunkTexts(_)
ChunkTexts(n) ==
    IF n = 0 THEN { <<>> }
    ELSE LET shorter == ChunkTexts(n - 1)
         IN  shorter \cup { t \o c : t \in shorter, c \in Chunks }

Texts == ChunkTexts(MaxChunks)

(***************************************************************************)
(* Regular expressions (re.search with re.IGNORECASE)                      *)
(***************************************************************************)
\* the pattern literals occurring in a word, ignoring case
Lits(w) ==
    CASE w = "WAR"       -> {"war"}
      [] w = "warning."  -> {"war"}
      [] w = "differences." -> {"if"}
      [] w = "now."      -> {"now"}
      [] w = "trade."    -> {"trade"}
      [] OTHER           -> {w}

\* a pattern is a set of alternatives; an alternative is a sequence of
\* literals joined by ".*"
RECURSIVE ScanFrom(_, _, _, _)
ScanFrom(alt, k, text, i) ==
    IF k > Len(alt) THEN TRUE
    ELSE IF i > Len(text) THEN FALSE
    ELSE IF text[i] = "\n" THEN FALSE
    ELSE IF alt[k] \in Lits(text[i]) THEN ScanFrom(alt, k + 1, text, i + 1)
    ELSE ScanFrom(alt, k, text, i + 1)

\* the first literal must match at the start position; the rest is found
\* leftmost on the same line
MatchAlt(alt, text) ==
    \E i \in 1..Len(text) :
        /\ alt[1] \in Lits(text[i])
        /\ ScanFrom(alt, 2, text, i + 1)

Search(alts, text) == \E alt \in alts : MatchAlt(alt, text)

PatternNames == <<"counter_offer", "ultimatum", "trade", "aggressive", "cooperative">>

_patterns ==
    [ counter_offer |-> { <<"grant", "access", "if", "withdraw", "troops">> },
      ultimatum     |-> { <<"ceasefire", "now", "or else">>, <<"deadline", "final">> },
      trade         |-> { <<"trade">>, <<"deal">>, <<"exchange">> },
      aggressive    |-> { <<"war">>, <<"attack">>, <<"threaten">>, <<"destroy">> },
      cooperative   |-> { <<"peace">>, <<"alliance">>, <<"cooperate">>, <<"help">> } ]

unsafe_patterns ==
    << { <<"hate">>, <<"discriminat">>, <<"racist">>, <<"sexist">> },
       { <<"violent">>, <<"kill">>, <<"murder">>, <<"assassinat">>, <<"violence">> },
       { <<"threat">>, <<"bomb">>, <<"weapon">>, <<"attack">>, <<"war">> } >>

\* the third family of unsafe patterns is not consulted
_contains_unsafe_content_TwoFamilies(text) ==
    \E n \in 1..2 : Search(unsafe_patterns[n], text)

_contains_unsafe_content(text) ==
    \E n \in 1..Len(unsafe_patterns) : Search(unsafe_patterns[n], text)

\* the names of the matching patterns, in the order of the pattern table
RECURSIVE MatchedFrom(_, _)
MatchedFrom(text, n) ==
    IF n > Len(PatternNames) THEN <<>>
    ELSE (IF Search(_patterns[PatternNames[n]], text)
          THEN <<PatternNames[n]>> ELSE <<>>) \o MatchedFrom(text, n + 1)

_get_matched_patterns(text) == MatchedFrom(text, 1)

(***************************************************************************)
(* Strings: length in characters and lower-casing, word by word            *)
(***************************************************************************)
WordsOfLen ==
    << {"I", "\n", "a"},
       {"We", "am", "if", "in", "is", "or", "to", "we"},
       {"...", "WAR", "can", "now", "our", "the", "you"},
       {"This", "deal", "face", "fire", "from", "have", "kill", "more", "now.", "such", "this", "will", "your"},
       {"Cease", "agree", "basic", "final", "grant", "peace", "trade"},
       {"access", "cannot", "forces", "matter", "severe", "trade.", "troops"},
       {"Perhaps", "counter", "destroy", "discuss", "further", "improve", "manner.", "matters",
        "or else", "propose", "resolve", "willing"},
       {"consider", "deadline", "disputed", "economic", "measures", "military",
        "tolerate", "warning.", "withdraw"},
       {"agreement", "ceasefire", "diplomacy", "establish", "merchants", "position.",
        "regarding", "rhetoric."},
       {"Greetings.", "aggressive", "diplomatic", "isolation.", "relations.", "understand"},
       {"cooperative", "immediately"},
       {"constructive", "differences.", "territories."},
       {"consequences."} >>

WordLen(w) == CHOOSE n \in 1..Len(WordsOfLen) : w \in WordsOfLen[n]

RECURSIVE SumLen(_, _)
SumLen(text, i) == IF i > Len(text) THEN 0 ELSE WordLen(text[i]) + SumLen(text, i + 1)

\* len(text): the words and the single spaces between them
StrLen(text) == IF Len(text) = 0 THEN 0 ELSE SumLen(text, 1) + (Len(text) - 1)

Lower(w) ==
    CASE w = "Cease"      -> "cease"
      [] w = "Greetings." -> "greetings."
      [] w = "I"          -> "i"
      [] w = "Perhaps"    -> "perhaps"
      [] w = "This"       -> "this"
      [] w = "WAR"        -> "war"
      [] w = "We"         -> "we"
      [] OTHER            -> w

\* set(text.lower().split())
Keywords(text) == { Lower(text[i]) : i \in { j \in 1..Len(text) : text[j] # "\n" } }

(***************************************************************************)
(* Rational numbers n/d with d > 0, kept in lowest terms                   *)
(***************************************************************************)
RECURSIVE Gcd(_, _)
Gcd(a, b) == IF b = 0 THEN a ELSE Gcd(b, a % b)

Rat(n, d) == LET g == Gcd(n, d) IN [n |-> n \div g, d |-> d \div g]
RMul(x, y) == Rat(x.n * y.n, x.d * y.d)
RAdd(x, y) == Rat(x.n * y.d + y.n * x.d, x.d * y.d)
RLess(x, y) == x.n * y.d < y.n * x.d
RMin(x, y) == IF RLess(y, x) THEN y ELSE x
RMax(x, y) == IF RLess(x, y) THEN y ELSE x

(***************************************************************************)
(* Inputs of a stream_dialogue call                                        *)
(***************************************************************************)
Speakers == {"player", "ai_faction"}
InitiatorIds == {"player", None}
CounterpartIds == {"ai_faction", NoId}
TagLists == { <<>>, <<"trade", "diplomacy">> }

SpeakerTurnModel(speaker_id, text) == [speaker_id |-> speaker_id, text |-> text]

WorldContextModel(tags, initiator, counterpart) ==
    [scenario_tags |-> tags, initiator_id |-> initiator, counterpart_id |-> counterpart]

Contexts == { WorldContextModel(t, i, c) : t \in TagLists, i \in InitiatorIds, c \in CounterpartIds }

\* turns that may precede the last turn of a history
PriorTurns == { SpeakerTurnModel("player", <<"WAR">>) }

RECURSIVE PriorHistories(_)
PriorHistories(n) ==
    IF n = 0 THEN { <<>> }
    ELSE LET shorter == PriorHistories(n - 1)
         IN  shorter \cup { Append(h, t) : h \in shorter, t \in PriorTurns }

Histories ==
    { <<>> } \cup
    { Append(h, SpeakerTurnModel(s, t)) : h \in PriorHistories(MaxPrior), s \in Speakers, t \in Texts }

\* datetime.now().hour
Hours == 0..23

\* outcome of validator.validate_intent: the schema files are read from
\* protocol/schemas at import time
SchemaOutcomes == {"valid", "ValidationError", "KeyError"}

\* world_context.<faction>.get("id", "ai_diplomat")
counterpart_speaker(ctx) ==
    IF ctx.counterpart_id = NoId THEN "ai_diplomat" ELSE ctx.counterpart_id

(***************************************************************************)
(* Intents built by MockLocalProvider                                      *)
(***************************************************************************)
CounterOfferContent ==
    << "We", "will", "grant", "trade", "access", "to", "your", "merchants", "if", "you",
       "withdraw", "your", "military", "forces", "from", "the", "disputed", "territories." >>
UltimatumContent ==
    << "Cease", "fire", "immediately", "or", "face", "severe", "consequences.", "This",
       "is", "our", "final", "warning." >>
ProposalContent ==
    << "I", "propose", "we", "establish", "a", "basic", "trade", "agreement", "to",
       "improve", "our", "economic", "relations." >>
AggressiveContent ==
    << "We", "cannot", "tolerate", "such", "aggressive", "rhetoric.", "Cease",
       "immediately", "or", "face", "diplomatic", "isolation." >>
ConcessionContent ==
    << "I", "am", "willing", "to", "consider", "cooperative", "measures", "to", "resolve",
       "our", "differences." >>
SmallTalkContent ==
    << "I", "understand", "your", "position.", "Perhaps", "we", "can", "discuss", "this",
       "matter", "further", "in", "a", "more", "constructive", "manner." >>
GreetingContent ==
    << "Greetings.", "I", "understand", "we", "have", "matters", "to", "discuss",
       "regarding", "our", "diplomatic", "relations." >>

NoIntent == [type |-> "none"]

CounterOfferModel(ctx) ==
    [ type |-> "counter_offer", speaker_id |-> counterpart_speaker(ctx),
      content |-> CounterOfferContent,
      original_proposal_id |-> "player_trade_proposal_1",
      counter_terms |-> [ trade_access_granted |-> TRUE, withdrawal_required |-> TRUE,
                          territories |-> <<"northern_border", "southern_pass">>,
                          duration |-> "2_years" ] ]

\* timestamp and deadline are hours of the day
UltimatumModel(ctx, content, deadline, consequences, now) ==
    [ type |-> "ultimatum", speaker_id |-> counterpart_speaker(ctx),
      content |-> content, deadline |-> deadline, consequences |-> consequences,
      timestamp |-> now ]

ProposalModel(ctx) ==
    [ type |-> "proposal", speaker_id |-> counterpart_speaker(ctx),
      content |-> ProposalContent, intent_type |-> "trade",
      terms |-> [ trade_volume |-> 500, duration |-> "1_year",
                  goods |-> <<"grain", "textiles">> ] ]

ConcessionModel(ctx) ==
    [ type |-> "concession", speaker_id |-> counterpart_speaker(ctx),
      content |-> ConcessionContent, concession_type |-> "diplomatic", value |-> 25 ]

SmallTalkModel(ctx, content) ==
    [ type |-> "small_talk", speaker_id |-> counterpart_speaker(ctx),
      content |-> content, topic |-> "diplomatic_relations" ]

\* datetime.replace(hour=h) raises ValueError unless 0 <= h <= 23
ReplaceHourRaises(h) == h < 0 \/ h > 23

\* _detect_intent_from_text: the exception it raises, or "none"
DetectRaises(text, now) ==
    IF Search(_patterns.counter_offer, text) THEN "none"
    ELSE IF Search(_patterns.ultimatum, text)
         THEN (IF ReplaceHourRaises(now + 1) THEN "ValueError" ELSE "none")
    ELSE IF Search(_patterns.trade, text) THEN "none"
    ELSE IF Search(_patterns.aggressive, text)
         THEN (IF ReplaceHourRaises(now + 2) THEN "ValueError" ELSE "none")
    ELSE "none"

\* the trade pattern is tried before the counter_offer pattern
_detect_intent_from_text_TradeFirst(text, ctx, now) ==
    IF Search(_patterns.trade, text) THEN ProposalModel(ctx)
    ELSE IF Search(_patterns.counter_offer, text) THEN CounterOfferModel(ctx)
    ELSE IF Search(_patterns.ultimatum, text) THEN
        UltimatumModel(ctx, UltimatumContent, now + 1,
            <<"Full military mobilization", "Trade embargo", "Alliance termination">>, now)
    ELSE IF Search(_patterns.aggressive, text) THEN
        UltimatumModel(ctx, AggressiveContent, now + 2,
            <<"Diplomatic isolation", "Economic sanctions">>, now)
    ELSE IF Search(_patterns.cooperative, text) THEN ConcessionModel(ctx)
    ELSE SmallTalkModel(ctx, SmallTalkContent)

\* _detect_intent_from_text: the intent it returns when it does not raise
_detect_intent_from_text(text, ctx, now) ==
    IF Search(_patterns.counter_offer, text) THEN CounterOfferModel(ctx)
    ELSE IF Search(_patterns.ultimatum, text) THEN
        UltimatumModel(ctx, UltimatumContent, now + 1,
            <<"Full military mobilization", "Trade embargo", "Alliance termination">>, now)
    ELSE IF Search(_patterns.trade, text) THEN ProposalModel(ctx)
    ELSE IF Search(_patterns.aggressive, text) THEN
        UltimatumModel(ctx, AggressiveContent, now + 2,
            <<"Diplomatic isolation", "Economic sanctions">>, now)
    ELSE IF Search(_patterns.cooperative, text) THEN ConcessionModel(ctx)
    ELSE SmallTalkModel(ctx, SmallTalkContent)

\* the overlap raises the score above the base and the result is not clamped
_calculate_confidence_score_Unclamped(i, ctx) ==
    LET intent_keywords == Keywords(i.content)
        context_keywords == Keywords(ctx.scenario_tags)
        overlap == Cardinality(intent_keywords \cap context_keywords)
        k == Cardinality(intent_keywords)
        s1 == IF Len(ctx.scenario_tags) > 0 /\ intent_keywords # {} /\ context_keywords # {}
              THEN RMul(Rat(8, 10), RAdd(Rat(1, 1), RMul(Rat(1, 2), Rat(overlap, k))))
              ELSE Rat(8, 10)
    IN  IF StrLen(i.content) < 10 THEN RMul(s1, Rat(7, 10)) ELSE s1

\* _calculate_confidence_score
_calculate_confidence_score(i, ctx) ==
    LET intent_keywords == Keywords(i.content)
        context_keywords == Keywords(ctx.scenario_tags)
        overlap == Cardinality(intent_keywords \cap context_keywords)
        k == Cardinality(intent_keywords)
        s1 == IF Len(ctx.scenario_tags) > 0 /\ intent_keywords # {} /\ context_keywords # {}
              THEN RMul(Rat(8, 10), RAdd(Rat(1, 2), RMul(Rat(1, 2), Rat(overlap, k))))
              ELSE Rat(8, 10)
        s2 == IF StrLen(i.content) < 10 THEN RMul(s1, Rat(7, 10)) ELSE s1
    IN  RMin(Rat(1, 1), RMax(Rat(1, 10), s2))

\* _generate_validation_justification: the parts joined by ". "
_generate_validation_justification(i, ctx, confidence) ==
    [ validation |-> "Schema validation passed",
      relevance  |-> IF RLess(Rat(8, 10), confidence) THEN "High context relevance"
                     ELSE IF RLess(Rat(5, 10), confidence) THEN "Moderate context relevance"
                     ELSE "Low context relevance",
      pattern_matches |-> _get_matched_patterns(i.content) ]

\* a failed validation is scored like a passed one
validate_and_score_intent_NoFallback(i, ctx, outcome) ==
    LET confidence == _calculate_confidence_score(i, ctx)
    IN  [ intent |-> i, confidence |-> confidence,
          justification |->
             IF outcome = "valid"
             THEN _generate_validation_justification(i, ctx, confidence)
             ELSE [ validation |-> "Validation failed", error |-> outcome ] ]

\* validate_and_score_intent: (intent, confidence, justification)
validate_and_score_intent(i, ctx, outcome) ==
    IF outcome = "valid"
    THEN LET confidence == _calculate_confidence_score(i, ctx)
         IN  [ intent |-> i, confidence |-> confidence,
               justification |-> _generate_validation_justification(i, ctx, confidence) ]
    ELSE [ intent |-> i, confidence |-> Rat(1, 10),
           justification |-> [ validation |-> "Validation failed", error |-> outcome ] ]

(***************************************************************************)
(* Events                                                                  *)
(***************************************************************************)
Safety(is_safe, flags, severity, reason) ==
    [ kind |-> "safety", is_safe |-> is_safe, flags |-> flags, severity |-> severity,
      reason |-> reason ]

LiveSubtitle(text, speaker_id, is_final) ==
    [ kind |-> "subtitle", text |-> text, speaker_id |-> speaker_id, is_final |-> is_final ]

NewIntent(i, confidence, justification) ==
    [ kind |-> "intent", intent |-> i, confidence |-> confidence,
      justification |-> justification ]

Analysis(analysis_type, result, confidence) ==
    [ kind |-> "analysis", analysis_type |-> analysis_type, result |-> result,
      confidence |-> confidence ]

\* text[:n] of a text, in words
Prefix(text, n) == SubSeq(text, 1, n)

(***************************************************************************)
(* MockLocalProvider.stream_dialogue                                       *)
(***************************************************************************)
\* no calculate_overall_score call, no second call, no session manager
ScoringIdle ==
    /\ scores_in = [ is_dict |-> FALSE ]
    /\ overall = [ raises |-> "idle" ]

ValidationIdle ==
    /\ score_call = [ outcome |-> "none" ]
    /\ score_reply = [ state |-> "idle" ]

SecondIdle == second = [ pc |-> "idle" ]

SessionIdle ==
    /\ sessions = << >>
    /\ reply = [ op |-> "none" ]
    /\ ended = {}
    /\ clock = 0

QueueIdle ==
    /\ bq = [ closed |-> FALSE ]
    /\ tasks = << >>
    /\ log = [ next |-> 0 ]

CallIdle ==
    /\ pure_call = [ fn |-> "none" ]
    /\ pure_reply = [ state |-> "idle" ]

Init ==
    /\ ScoringIdle /\ ValidationIdle /\ SecondIdle /\ SessionIdle /\ QueueIdle /\ CallIdle
    /\ provider = "mock_local"
    /\ turns \in Histories
    /\ world_context \in Contexts
    /\ strict \in BOOLEAN
    /\ pc = "start"
    /\ events = <<>>
    /\ intent = NoIntent
    /\ calls = <<>>
    /\ err = "none"
    /\ subs_q = [ maxsize |-> 0, items |-> <<>>, closed |-> FALSE ]
    /\ intent_q = [ maxsize |-> 0, items |-> <<>>, closed |-> FALSE ]
    /\ subtitle_task = [ pc |-> "none", i |-> 0 ]
    /\ intent_task = "none"
    /\ video_source = "idle"

\* the first turn of the history is taken for the last
last_turn_First == turns[1]

\* last_turn = turns[-1]
last_turn == turns[Len(turns)]

\* the speaker is compared with the counterpart instead of the initiator
IsAiTurn_Counterpart == last_turn.speaker_id = world_context.counterpart_id

\* last_turn.speaker_id != world_context.initiator_faction.get("id")
IsAiTurn == last_turn.speaker_id # world_context.initiator_id

\* self.strict and self._contains_unsafe_content(text)
StrictViolation == strict /\ _contains_unsafe_content(last_turn.text)

\* the pass starts without its safety event
MockSafety_Skipped ==
    /\ provider = "mock_local" /\ pc = "start"
    /\ pc' = "checked"
    /\ UNCHANGED <<aux_vars, veo_vars, provider, turns, world_context, strict, events, intent, calls, err>>

\* yield Safety(...): the first event of every pass
MockSafety ==
    /\ provider = "mock_local" /\ pc = "start"
    /\ events' = Append(events, Safety(TRUE, <<"deterministic_mode">>, "info",
                                       "Operating in deterministic mock mode"))
    /\ pc' = "checked"
    /\ UNCHANGED <<aux_vars, veo_vars, provider, turns, world_context, strict, intent, calls, err>>

\* the greeting is scored like a detected intent
MockGreeting_Scored ==
    /\ provider = "mock_local" /\ pc = "checked"
    /\ Len(turns) = 0
    /\ LET g == SmallTalkModel(world_context, GreetingContent)
       IN  events' = Append(events,
              NewIntent(g, _calculate_confidence_score(g, world_context),
                        [ validation |-> "Initial greeting in diplomatic negotiations" ]))
    /\ pc' = "done"
    /\ UNCHANGED <<aux_vars, veo_vars, provider, turns, world_context, strict, intent, calls, err>>

\* if not turns: yield NewIntent(greeting); return
MockGreeting ==
    /\ provider = "mock_local" /\ pc = "checked"
    /\ Len(turns) = 0
    /\ events' = Append(events,
          NewIntent(SmallTalkModel(world_context, GreetingContent), Rat(1, 1),
                    [ validation |-> "Initial greeting in diplomatic negotiations" ]))
    /\ pc' = "done"
    /\ UNCHANGED <<aux_vars, veo_vars, provider, turns, world_context, strict, intent, calls, err>>

\* last turn is not the initiator's: yield Analysis(ai_response); return
MockAiTurn ==
    /\ provider = "mock_local" /\ pc = "checked"
    /\ Len(turns) > 0
    /\ IsAiTurn
    /\ events' = Append(events,
          Analysis("turn_analysis",
                   [ turn_type |-> "ai_response", content_length |-> StrLen(last_turn.text),
                     sentiment |-> "neutral" ],
                   Rat(8, 10)))
    /\ pc' = "done"
    /\ UNCHANGED <<aux_vars, veo_vars, provider, turns, world_context, strict, intent, calls, err>>

\* strict mode and unsafe text: yield Safety(high)
MockStrictSafety ==
    /\ provider = "mock_local" /\ pc = "checked"
    /\ Len(turns) > 0
    /\ ~IsAiTurn
    /\ StrictViolation
    /\ calls' = Append(calls, "_contains_unsafe_content")
    /\ events' = Append(events, Safety(FALSE, <<"unsafe_content">>, "high",
                                       "Strict mode detected potentially unsafe content"))
    /\ pc' = "blocked"
    /\ UNCHANGED <<aux_vars, veo_vars, provider, turns, world_context, strict, intent, err>>

\* ... then yield Analysis(strict_mode_violation); return
MockStrictAnalysis ==
    /\ provider = "mock_local" /\ pc = "blocked"
    /\ LET text == last_turn.text
       IN  events' = Append(events,
              Analysis("strict_mode_violation",
                       [ blocked_content |-> IF StrLen(text) > 50
                                             THEN <<"text[:50]", "...">> ELSE text,
                         violation_type |-> "unsafe_content",
                         processing_mode |-> "strict" ],
                       Rat(9, 10)))
    /\ pc' = "done"
    /\ UNCHANGED <<aux_vars, veo_vars, provider, turns, world_context, strict, intent, calls, err>>

\* the calls made on the way to intent detection
DetectCalls == IF strict THEN <<"_contains_unsafe_content", "_detect_intent_from_text">>
               ELSE <<"_detect_intent_from_text">>

\* intent detection, then yield the interim LiveSubtitle
MockDetect ==
    /\ provider = "mock_local" /\ pc = "checked"
    /\ Len(turns) > 0
    /\ ~IsAiTurn
    /\ ~StrictViolation
    /\ calls' = calls \o DetectCalls
    /\ \E now \in Hours :
         LET text == last_turn.text
             raised == DetectRaises(text, now)
         IN  IF raised # "none"
             THEN /\ err' = raised
                  /\ pc' = "raised"
                  /\ UNCHANGED <<intent, events>>
             ELSE /\ intent' = _detect_intent_from_text(text, world_context, now)
                  /\ events' = Append(events,
                        LiveSubtitle(Prefix(text, Len(text) \div 2) \o <<"...">>,
                                     last_turn.speaker_id, FALSE))
                  /\ pc' = "interim"
                  /\ err' = err
    /\ UNCHANGED <<aux_vars, veo_vars, provider, turns, world_context, strict>>

\* the intent is yielded before the final subtitle
MockFinalSubtitle_AfterIntent ==
    /\ provider = "mock_local" /\ pc = "interim"
    /\ LET r == validate_and_score_intent(intent, world_context, "valid")
       IN  events' = events \o << NewIntent(r.intent, r.confidence, r.justification),
                                  LiveSubtitle(last_turn.text, last_turn.speaker_id, TRUE) >>
    /\ pc' = "scored"
    /\ UNCHANGED <<aux_vars, veo_vars, provider, turns, world_context, strict, intent, calls, err>>

\* the second subtitle is not marked final
MockFinalSubtitle_NotFinal ==
    /\ provider = "mock_local" /\ pc = "interim"
    /\ events' = Append(events, LiveSubtitle(last_turn.text, last_turn.speaker_id, FALSE))
    /\ pc' = "final"
    /\ UNCHANGED <<aux_vars, veo_vars, provider, turns, world_context, strict, intent, calls, err>>

\* await asyncio.sleep(0.1); yield the final LiveSubtitle
MockFinalSubtitle ==
    /\ provider = "mock_local" /\ pc = "interim"
    /\ events' = Append(events, LiveSubtitle(last_turn.text, last_turn.speaker_id, TRUE))
    /\ pc' = "final"
    /\ UNCHANGED <<aux_vars, veo_vars, provider, turns, world_context, strict, intent, calls, err>>

\* if intent: validate, score and yield NewIntent
MockIntent ==
    /\ provider = "mock_local" /\ pc = "final"
    /\ intent.type # "none"
    /\ \E outcome \in SchemaOutcomes :
         LET r == validate_and_score_intent(intent, world_context, outcome)
         IN  events' = Append(events, NewIntent(r.intent, r.confidence, r.justification))
    /\ calls' = Append(calls, "validate_and_score_intent")
    /\ pc' = "scored"
    /\ UNCHANGED <<aux_vars, veo_vars, provider, turns, world_context, strict, intent, err>>

\* yield Analysis(deterministic_analysis): the end of the pass
MockAnalysis ==
    /\ provider = "mock_local"
    /\ \/ pc = "scored"
       \/ pc = "final" /\ intent.type = "none"
    /\ events' = Append(events,
          Analysis("deterministic_analysis",
                   [ matched_patterns |-> _get_matched_patterns(last_turn.text),
                     intent_detected |-> intent.type,
                     processing_mode |-> IF strict THEN "strict" ELSE "permissive" ],
                   Rat(85, 100)))
    /\ calls' = Append(calls, "_get_matched_patterns")
    /\ pc' = "done"
    /\ UNCHANGED <<aux_vars, veo_vars, provider, turns, world_context, strict, intent, err>>

Next ==
    \/ MockSafety
    \/ MockGreeting
    \/ MockAiTurn
    \/ MockStrictSafety
    \/ MockStrictAnalysis
    \/ MockDetect
    \/ MockFinalSubtitle
    \/ MockIntent
    \/ MockAnalysis

Spec == Init /\ [][Next]_vars

(***************************************************************************)
(* Veo3Provider (gemini_veo3.py): stream_dialogue runs two producer tasks, *)
(* _stream_subtitles and _detect_intents, which put events on two          *)
(* BoundedAIO queues, and yields what _yield_events reads from the queues. *)
(* A step of a task runs from one suspension point to the next.            *)
(***************************************************************************)
\* ProviderEvent(type=..., payload=...)
ProviderEvent(type, payload) == [ type |-> type, payload |-> payload ]

\* BoundedAIO(maxsize): asyncio.Queue(maxsize), closed = False
BoundedAIO(maxsize) == [ maxsize |-> maxsize, items |-> <<>>, closed |-> FALSE ]

\* subs_q / intent_q before the queues are created (None)
NoQueue == [ maxsize |-> 0, items |-> <<>>, closed |-> FALSE ]

IsNone(q) == q.maxsize = 0

\* self._sentinel
_sentinel == [ type |-> "_sentinel" ]

\* asyncio.Queue.full()
full(q) == Len(q.items) >= q.maxsize

\* BoundedAIO.put once the queue has room
put(q, item) == [ q EXCEPT !.items = Append(@, item) ]

\* BoundedAIO.close once the queue has room for the sentinel
close(q) == IF q.closed THEN q
            ELSE [ q EXCEPT !.closed = TRUE, !.items = Append(@, _sentinel) ]

\* BoundedAIO.close suspends in queue.put(sentinel) while the queue is full
CloseBlocks(q) == ~q.closed /\ full(q)

\* BoundedAIO.get suspends in queue.get() while an open queue is empty
GetBlocks(q) == ~q.closed /\ q.items = <<>>

\* BoundedAIO.get raises StopAsyncIteration
GetEnds(q) ==
    \/ q.closed /\ q.items = <<>>
    \/ q.items # <<>> /\ Head(q.items).type = "_sentinel"

\* the queue after a get
Rest(q) == IF q.items = <<>> THEN q ELSE [ q EXCEPT !.items = Tail(@) ]

\* texts of the turns given to the Veo3 provider
VeoChunks ==
    { <<"ceasefire", "now.">>,
      <<"trade.">>,
      <<"agree">>,
      <<"counter">>,
      <<"final">> }

RECURSIVE VeoChunkTexts(_)
VeoChunkTexts(n) ==
    IF n = 0 THEN { <<>> }
    ELSE LET shorter == VeoChunkTexts(n - 1)
         IN  shorter \cup { t \o c : t \in shorter, c \in VeoChunks }

VeoTexts == VeoChunkTexts(MaxChunks)

VeoPriorTurns == { SpeakerTurnModel("player", <<"ceasefire", "now.", "deal">>) }

RECURSIVE VeoPriorHistories(_)
VeoPriorHistories(n) ==
    IF n = 0 THEN { <<>> }
    ELSE LET shorter == VeoPriorHistories(n - 1)
         IN  shorter \cup { Append(h, t) : h \in shorter, t \in VeoPriorTurns }

VeoHistories ==
    { <<>> } \cup
    { Append(h, SpeakerTurnModel(s, t)) :
        h \in VeoPriorHistories(MaxPrior), s \in Speakers, t \in VeoTexts }

VeoContexts == { WorldContextModel(t, "player", "ai_faction") : t \in TagLists }

\* words whose last character is one of '.!?'
SentenceEnd(w) ==
    w \in { "now.", "trade.", "warning.", "manner.", "position.", "rhetoric.", "Greetings.",
            "isolation.", "relations.", "differences.", "territories.", "consequences." }

RECURSIVE SplitFrom(_, _, _, _)
SplitFrom(text, i, current_clause, clauses) ==
    IF i > Len(text)
    THEN IF current_clause # <<>> THEN Append(clauses, current_clause) ELSE clauses
    ELSE LET c == Append(current_clause, text[i])
         IN  IF SentenceEnd(text[i]) /\ StrLen(c) > 10
             THEN SplitFrom(text, i + 1, <<>>, Append(clauses, c))
             ELSE SplitFrom(text, i + 1, c, clauses)

\* _split_into_clauses: return clauses or [text]
_split_into_clauses(text) ==
    LET clauses == SplitFrom(text, 1, <<>>, <<>>)
    IN  IF clauses = <<>> THEN << text >> ELSE clauses

\* turn.speaker_id.startswith("player")
StartsWithPlayer(speaker_id) == speaker_id = "player"

\* [turn for turn in turns if turn.speaker_id.startswith("player")]
player_turns == SelectSeq(turns, LAMBDA t : StartsWithPlayer(t.speaker_id))

\* any(word in text_lower for word in words)
AnyWordIn(words, text) == \E i \in DOMAIN text : Lits(text[i]) \cap words # {}

\* the type of the reply of _mock_function_call
VeoIntentType(text) ==
    IF AnyWordIn({"trade", "deal", "exchange", "offer"}, text) THEN "proposal"
    ELSE IF AnyWordIn({"concede", "yield", "agree", "accept"}, text) THEN "concession"
    ELSE IF AnyWordIn({"counter"}, text) THEN "counter_offer"
    ELSE IF AnyWordIn({"or else", "deadline", "final", "ultimatum"}, text) THEN "ultimatum"
    ELSE "small_talk"

\* the dict loaded from the YAML reply of _mock_function_call
VeoIntent(type) ==
    [ type |-> type, speaker_id |-> "ai_diplomat",
      content |->
        CASE type = "proposal" ->
               <<"I", "propose", "a", "trade", "agreement", "based", "on", "current",
                 "diplomatic", "relations.">>
          [] type = "concession" ->
               <<"I", "am", "willing", "to", "make", "concessions", "in", "the",
                 "interest", "of", "peace.">>
          [] type = "counter_offer" ->
               <<"I", "counter", "with", "a", "modified", "proposal", "that", "addresses",
                 "your", "concerns.">>
          [] type = "ultimatum" ->
               <<"This", "is", "our", "final", "offer", "-", "accept", "it", "or", "face",
                 "the", "consequences.">>
          [] OTHER ->
               <<"I", "acknowledge", "your", "statement", "and", "understand", "your",
                 "position.">> ]

\* what score_intent reads in str(intent).lower(): the occurrences of the
\* demand words, of the offer words and of the face-saving phrases, len(str(intent))
\* and the scenario tags occurring in it
StrOfIntent(i) ==
    CASE i.type = "proposal" ->
           [ demands |-> 0, offers |-> 1, phrases |-> 0, length |-> 266, tags |-> {"trade"} ]
      [] i.type = "concession" ->
           [ demands |-> 0, offers |-> 0, phrases |-> 1, length |-> 216, tags |-> {} ]
      [] i.type = "counter_offer" ->
           [ demands |-> 0, offers |-> 1, phrases |-> 0, length |-> 292, tags |-> {} ]
      [] i.type = "ultimatum" ->
           [ demands |-> 0, offers |-> 1, phrases |-> 0, length |-> 267, tags |-> {"trade"} ]
      [] OTHER ->
           [ demands |-> 0, offers |-> 0, phrases |-> 0, length |-> 187, tags |-> {} ]

type_scores(type) ==
    CASE type = "proposal" ->
           [ trust |-> Rat(7, 10), leverage |-> Rat(6, 10), face_saving |-> Rat(4, 10),
             confidence |-> Rat(8, 10) ]
      [] type = "counter_offer" ->
           [ trust |-> Rat(8, 10), leverage |-> Rat(7, 10), face_saving |-> Rat(5, 10),
             confidence |-> Rat(9, 10) ]
      [] type = "ultimatum" ->
           [ trust |-> Rat(3, 10), leverage |-> Rat(9, 10), face_saving |-> Rat(2, 10),
             confidence |-> Rat(7, 10) ]
      [] type = "concession" ->
           [ trust |-> Rat(9, 10), leverage |-> Rat(4, 10), face_saving |-> Rat(8, 10),
             confidence |-> Rat(6, 10) ]
      [] type = "small_talk" ->
           [ trust |-> Rat(6, 10), leverage |-> Rat(3, 10), face_saving |-> Rat(7, 10),
             confidence |-> Rat(9, 10) ]
      [] OTHER ->
           [ trust |-> Rat(1, 2), leverage |-> Rat(1, 2), face_saving |-> Rat(1, 2),
             confidence |-> Rat(1, 2) ]

\* the scores when no step of the try block raises
computed_scores(type, s, scenario_tags) ==
    LET base == type_scores(type)
        one == Rat(1, 1)
        tenth == Rat(1, 10)
        trust1 == IF s.demands > s.offers THEN RMul(base.trust, Rat(7, 10))
                  ELSE IF s.offers > s.demands THEN RMin(one, RAdd(base.trust, tenth))
                  ELSE base.trust
        leverage1 == IF s.demands > s.offers THEN RMin(one, RAdd(base.leverage, tenth))
                     ELSE base.leverage
        face1 == IF s.offers > s.demands THEN RMin(one, RAdd(base.face_saving, tenth))
                 ELSE base.face_saving
        face2 == RMin(one, RAdd(face1, Rat(s.phrases, 10)))
        conf1 == IF 10 <= s.length /\ s.length <= 200
                 THEN RMin(one, RAdd(base.confidence, tenth))
                 ELSE IF s.length < 10 THEN RMax(Rat(0, 1), RAdd(base.confidence, Rat(-2, 10)))
                 ELSE IF s.length > 500 THEN RMax(Rat(0, 1), RAdd(base.confidence, Rat(-1, 10)))
                 ELSE base.confidence
        context_relevance ==
            Cardinality({ k \in DOMAIN scenario_tags : scenario_tags[k] \in s.tags })
        alignment_score == IF Len(scenario_tags) > 0
                           THEN Rat(context_relevance, Len(scenario_tags)) ELSE Rat(0, 1)
    IN  [ trust |-> RMin(one, RAdd(trust1, RMul(alignment_score, Rat(2, 10)))),
          leverage |-> leverage1,
          face_saving |-> face2,
          confidence |-> RMin(one, RAdd(conf1, RMul(alignment_score, tenth))) ]

\* max(0.0, min(1.0, scores[key])) for every key
bounded_scores(scores) ==
    [ key \in DOMAIN scores |-> RMax(Rat(0, 1), RMin(Rat(1, 1), scores[key])) ]

\* the except branch keeps the scores computed so far
score_intent_dict_NoDefault(type, s, scenario_tags, raises) ==
    bounded_scores(IF raises THEN type_scores(type) ELSE computed_scores(type, s, scenario_tags))

\* score_intent on dictionaries: type is intent.get("type", ""), s what is read
\* in str(intent), raises whether a step of the try block raises
score_intent_dict(type, s, scenario_tags, raises) ==
    bounded_scores(IF raises
                   THEN [ trust |-> Rat(3, 10), leverage |-> Rat(3, 10),
                          face_saving |-> Rat(3, 10), confidence |-> Rat(3, 10) ]
                   ELSE computed_scores(type, s, scenario_tags))

\* score_intent(intent, world_context)
score_intent(i, ctx) == score_intent_dict(i.type, StrOfIntent(i), ctx.scenario_tags, FALSE)

\* sum(scores.values()) / len(scores)
overall_score(scores) ==
    RMul(RAdd(RAdd(scores.trust, scores.leverage),
              RAdd(scores.face_saving, scores.confidence)), Rat(1, 4))

IntentTypes == {"proposal", "concession", "counter_offer", "ultimatum", "small_talk"}

\* the intent event _detect_intents builds from a validated reply: the intent,
\* the mean of its scores and the scores as justification
IntentEvent ==
    [ type \in IntentTypes, ctx \in VeoContexts |->
        LET validated_intent == VeoIntent(type)
            scores == score_intent(validated_intent, ctx)
        IN  ProviderEvent("intent",
               [ intent |-> validated_intent,
                 confidence |-> overall_score(scores),
                 justification |-> scores ]) ]

InitVeo3 ==
    /\ ScoringIdle /\ ValidationIdle /\ SecondIdle /\ SessionIdle /\ QueueIdle /\ CallIdle
    /\ provider = "veo3"
    /\ turns \in VeoHistories
    /\ world_context \in VeoContexts
    /\ strict = FALSE
    /\ pc = "start"
    /\ events = <<>>
    /\ intent = NoIntent
    /\ calls = <<>>
    /\ err = "none"
    /\ subs_q = NoQueue
    /\ intent_q = NoQueue
    /\ subtitle_task = [ pc |-> "none", i |-> 0 ]
    /\ intent_task = "none"
    /\ video_source = "idle"

mock_vars == <<strict, intent, calls, err>>

\* stream_dialogue up to the first read of _yield_events
VeoStreamDialogue ==
    /\ provider = "veo3" /\ pc = "start"
    /\ \E convertible \in BOOLEAN, started \in BOOLEAN :
         IF ~convertible
         THEN /\ events' = Append(events,
                    ProviderEvent("safety",
                       [ flag |-> "error", is_safe |-> FALSE, severity |-> "error" ]))
              /\ pc' = "cleanup"
              /\ UNCHANGED veo_vars
         ELSE /\ video_source' = IF started THEN "started" ELSE "failed"
              /\ subs_q' = BoundedAIO(50)
              /\ intent_q' = BoundedAIO(20)
              /\ subtitle_task' = [ pc |-> "created", i |-> 0 ]
              /\ intent_task' = "created"
              /\ pc' = "subs"
              /\ UNCHANGED events
    /\ UNCHANGED <<aux_vars, mock_vars, provider, turns, world_context>>

\* the final subtitle carries the last clause instead of the turn's text
VeoStreamSubtitles_LastClause ==
    /\ provider = "veo3"
    /\ subtitle_task.pc \in {"created", "sleeping"}
    /\ IF player_turns = <<>>
       THEN /\ subtitle_task' = [ subtitle_task EXCEPT !.pc = "done" ]
            /\ UNCHANGED subs_q
       ELSE LET last_player_turn == player_turns[Len(player_turns)]
                clauses == _split_into_clauses(last_player_turn.text)
                i == subtitle_task.i
                interim == i < Len(clauses) - 1
                subtitle ==
                    ProviderEvent("subtitle",
                       [ text |-> clauses[i + 1], start_time |-> 2 * i,
                         end_time |-> 2 * (i + 1),
                         speaker_id |-> last_player_turn.speaker_id, is_final |-> ~interim ])
            IN  IF subs_q.closed
                THEN /\ subtitle_task' = [ subtitle_task EXCEPT !.pc = "done" ]
                     /\ UNCHANGED subs_q
                ELSE /\ subs_q' = put(subs_q, subtitle)
                     /\ subtitle_task' = IF interim THEN [ pc |-> "sleeping", i |-> i + 1 ]
                                         ELSE [ subtitle_task EXCEPT !.pc = "done" ]
    /\ UNCHANGED <<aux_vars, mock_vars, provider, turns, world_context, pc, events, intent_q,
                   intent_task, video_source>>

\* _stream_subtitles: one put, up to the sleep that follows it or to the return
VeoStreamSubtitles ==
    /\ provider = "veo3"
    /\ subtitle_task.pc \in {"created", "sleeping", "putting"}
    /\ IF player_turns = <<>>
       THEN /\ subtitle_task' = [ subtitle_task EXCEPT !.pc = "done" ]
            /\ UNCHANGED subs_q
       ELSE LET last_player_turn == player_turns[Len(player_turns)]
                text == last_player_turn.text
                clauses == _split_into_clauses(text)
                i == subtitle_task.i
                interim == i < Len(clauses) - 1
                subtitle ==
                    IF interim
                    THEN ProviderEvent("subtitle",
                            [ text |-> clauses[i + 1], start_time |-> 2 * i,
                              end_time |-> 2 * (i + 1),
                              speaker_id |-> last_player_turn.speaker_id,
                              is_final |-> FALSE ])
                    ELSE ProviderEvent("subtitle",
                            [ text |-> text, start_time |-> 0,
                              end_time |-> 2 * Len(clauses),
                              speaker_id |-> last_player_turn.speaker_id,
                              is_final |-> TRUE ])
            IN  IF subtitle_task.pc # "putting" /\ subs_q.closed
                THEN \* RuntimeError("BoundedAIO is closed"), logged
                     /\ subtitle_task' = [ subtitle_task EXCEPT !.pc = "done" ]
                     /\ UNCHANGED subs_q
                ELSE IF full(subs_q)
                THEN \* suspended in queue.put until there is room
                     /\ subtitle_task.pc # "putting"
                     /\ subtitle_task' = [ subtitle_task EXCEPT !.pc = "putting" ]
                     /\ UNCHANGED subs_q
                ELSE /\ subs_q' = put(subs_q, subtitle)
                     /\ subtitle_task' = IF interim THEN [ pc |-> "sleeping", i |-> i + 1 ]
                                         ELSE [ subtitle_task EXCEPT !.pc = "done" ]
    /\ UNCHANGED <<aux_vars, mock_vars, provider, turns, world_context, pc, events, intent_q,
                   intent_task, video_source>>

\* _detect_intents up to the sleep of _mock_function_call
VeoDetectIntents ==
    /\ provider = "veo3"
    /\ intent_task = "created"
    /\ intent_task' = IF turns = <<>> THEN "done" ELSE "sleeping"
    /\ UNCHANGED <<aux_vars, mock_vars, provider, turns, world_context, pc, events, subs_q, intent_q,
                   subtitle_task, video_source>>

\* _mock_function_call after its sleep, then validation, scoring and the put
VeoMockFunctionCall ==
    /\ provider = "veo3"
    /\ intent_task = "sleeping"
    /\ intent_task' = "done"
    /\ \E now \in Hours, outcome \in SchemaOutcomes :
         LET type == VeoIntentType(last_turn.text)
         IN  IF \/ type = "ultimatum" /\ ReplaceHourRaises(now + 1)
                \/ outcome # "valid"
                \/ intent_q.closed
             THEN \* the exception is logged by _detect_intents
                  UNCHANGED intent_q
             ELSE intent_q' = put(intent_q, IntentEvent[type, world_context])
    /\ UNCHANGED <<aux_vars, mock_vars, provider, turns, world_context, pc, events, subs_q,
                   subtitle_task, video_source>>

\* _yield_events: the subtitle queue to its end, then the intent queue to its
\* end, then the analysis event
VeoYieldEvents ==
    /\ provider = "veo3"
    /\ pc \in {"subs", "intents", "analysis"}
    /\ IF pc = "subs"
       THEN /\ ~GetBlocks(subs_q)
            /\ subs_q' = Rest(subs_q)
            /\ IF GetEnds(subs_q)
               THEN pc' = "intents" /\ UNCHANGED events
               ELSE pc' = pc /\ events' = Append(events, Head(subs_q.items))
            /\ UNCHANGED intent_q
       ELSE IF pc = "intents"
       THEN /\ ~GetBlocks(intent_q)
            /\ intent_q' = Rest(intent_q)
            /\ IF GetEnds(intent_q)
               THEN pc' = "analysis" /\ UNCHANGED events
               ELSE pc' = pc /\ events' = Append(events, Head(intent_q.items))
            /\ UNCHANGED subs_q
       ELSE /\ events' = Append(events,
                  ProviderEvent("analysis",
                     [ tag |-> "conversation_summary",
                       result |-> [ processing_time_ms |-> "latency_target_ms",
                                    confidence |-> Rat(85, 100) ] ]))
            /\ pc' = "gather"
            /\ UNCHANGED <<subs_q, intent_q>>
    /\ UNCHANGED <<aux_vars, mock_vars, provider, turns, world_context, subtitle_task, intent_task,
                   video_source>>

\* the consumer gives the stream up (aclose, or cancellation of its read)
VeoCancel ==
    /\ provider = "veo3"
    /\ pc \in {"subs", "intents", "analysis", "gather"}
    /\ pc' = "cleanup"
    /\ UNCHANGED <<aux_vars, veo_vars, mock_vars, provider, turns, world_context, events>>

\* the finally block of stream_dialogue, entered after asyncio.gather or on the
\* way out of the generator
VeoFinally ==
    /\ provider = "veo3"
    /\ \/ pc = "cleanup"
       \/ pc = "gather" /\ subtitle_task.pc = "done" /\ intent_task = "done"
    /\ IF ~IsNone(subs_q) /\ CloseBlocks(subs_q)
       THEN /\ subs_q' = [ subs_q EXCEPT !.closed = TRUE ]
            /\ pc' = "close_blocked"
            /\ UNCHANGED <<intent_q, video_source>>
       ELSE IF ~IsNone(intent_q) /\ CloseBlocks(intent_q)
       THEN /\ subs_q' = IF IsNone(subs_q) THEN subs_q ELSE close(subs_q)
            /\ intent_q' = [ intent_q EXCEPT !.closed = TRUE ]
            /\ pc' = "close_blocked"
            /\ UNCHANGED video_source
       ELSE /\ subs_q' = IF IsNone(subs_q) THEN subs_q ELSE close(subs_q)
            /\ intent_q' = IF IsNone(intent_q) THEN intent_q ELSE close(intent_q)
            /\ video_source' = "stopped"
            /\ pc' = "done"
    /\ UNCHANGED <<aux_vars, mock_vars, provider, turns, world_context, events, subtitle_task,
                   intent_task>>

NextVeo3 ==
    \/ VeoStreamDialogue
    \/ VeoStreamSubtitles
    \/ VeoDetectIntents
    \/ VeoMockFunctionCall
    \/ VeoYieldEvents
    \/ VeoCancel
    \/ VeoFinally

SpecVeo3 == InitVeo3 /\ [][NextVeo3]_vars

\* clauses of the speech below: as many as the subtitle queue holds
SpeechClauses == 50

\* a player's speech of SpeechClauses sentences, each longer than 10 characters
LongSpeech == [ i \in 1..SpeechClauses |-> "consequences." ]

\* stream_dialogue called with one player turn holding the long speech
InitVeo3Long ==
    /\ ScoringIdle /\ ValidationIdle /\ SecondIdle /\ SessionIdle /\ QueueIdle /\ CallIdle
    /\ provider = "veo3"
    /\ turns = << SpeakerTurnModel("player", LongSpeech) >>
    /\ world_context = WorldContextModel(<<>>, "player", "ai_faction")
    /\ strict = FALSE
    /\ pc = "start"
    /\ events = <<>>
    /\ intent = NoIntent
    /\ calls = <<>>
    /\ err = "none"
    /\ subs_q = NoQueue
    /\ intent_q = NoQueue
    /\ subtitle_task = [ pc |-> "none", i |-> 0 ]
    /\ intent_task = "none"
    /\ video_source = "idle"

SpecVeo3Long == InitVeo3Long /\ [][NextVeo3]_vars

\* a pass of either provider
InitProviders == Init \/ InitVeo3

NextProviders == Next \/ NextVeo3

SpecProviders == InitProviders /\ [][NextProviders]_vars

\* no provider pass
ProviderIdle ==
    /\ provider = "none"
    /\ turns = <<>>
    /\ world_context = WorldContextModel(<<>>, None, NoId)
    /\ strict = FALSE
    /\ pc = "idle"
    /\ events = <<>>
    /\ intent = NoIntent
    /\ calls = <<>>
    /\ err = "none"
    /\ subs_q = NoQueue
    /\ intent_q = NoQueue
    /\ subtitle_task = [ pc |-> "none", i |-> 0 ]
    /\ intent_task = "none"
    /\ video_source = "idle"

(***************************************************************************)
(* MockLocalProvider.validate_and_score_intent called on its own           *)
(***************************************************************************)
\* contents of the intents given to validate_and_score_intent
ScoredContents ==
    { <<>>, <<"trade">>, <<"peace">>, <<"trade", "diplomacy">>, <<"trade", "access">>,
      CounterOfferContent, UltimatumContent, ProposalContent, ConcessionContent,
      SmallTalkContent, GreetingContent }

ScoredTagLists ==
    { <<>>, <<"trade">>, <<"trade", "diplomacy">>, <<"military", "high_stakes">> }

ScoreCalls ==
    { [ intent |-> [ type |-> "proposal", content |-> c ],
        world_context |-> WorldContextModel(t, "player", "ai_faction"),
        outcome |-> o ] :
        c \in ScoredContents, t \in ScoredTagLists, o \in SchemaOutcomes }

InitValidation ==
    /\ ProviderIdle /\ ScoringIdle /\ SecondIdle /\ SessionIdle /\ QueueIdle /\ CallIdle
    /\ score_call \in ScoreCalls
    /\ score_reply = [ state |-> "pending" ]

\* the call of validate_and_score_intent(intent, world_context)
ValidateAndScoreIntent ==
    /\ score_reply.state = "pending"
    /\ score_reply' =
          [ state |-> "returned",
            result |-> validate_and_score_intent(score_call.intent, score_call.world_context,
                                                 score_call.outcome) ]
    /\ UNCHANGED <<provider_vars, scoring_vars, score_call, second_vars, session_vars,
                   queue_vars, call_vars>>

\* a pass of the mock provider, or a call of its scorer on its own
InitMockScoring == Init \/ InitValidation

NextMockScoring == Next \/ ValidateAndScoreIntent

SpecMockScoring == InitMockScoring /\ [][NextMockScoring]_vars

(***************************************************************************)
(* Two stream_dialogue calls on one MockLocalProvider instance.  The       *)
(* running call is held by the variables of the pass; the locals of the    *)
(* suspended call (its arguments, its position, what it has yielded) are   *)
(* held by `second`.  self.strict and self._patterns belong to the         *)
(* instance.  The event loop may switch between the calls wherever a call  *)
(* is suspended: before its first step, at a yield, at its end.            *)
(***************************************************************************)
TwoCallHistories ==
    { <<>>,
      << SpeakerTurnModel("player", <<"ceasefire", "now", "or else">>) >>,
      << SpeakerTurnModel("player", <<"trade">>) >>,
      << SpeakerTurnModel("player", <<"WAR">>) >>,
      << SpeakerTurnModel("ai_faction", <<"peace">>) >> }

TwoCallContexts ==
    { WorldContextModel(t, "player", "ai_faction") : t \in TagLists }

\* the locals of a call that has not taken its first step
NewCall(t, ctx) ==
    [ turns |-> t, world_context |-> ctx, pc |-> "start", events |-> <<>>,
      intent |-> NoIntent, calls |-> <<>>, err |-> "none" ]

InitTwoCalls ==
    /\ ScoringIdle /\ ValidationIdle /\ SessionIdle /\ QueueIdle /\ CallIdle
    /\ provider = "mock_local"
    /\ turns \in TwoCallHistories
    /\ world_context \in TwoCallContexts
    /\ strict \in BOOLEAN
    /\ pc = "start"
    /\ events = <<>>
    /\ intent = NoIntent
    /\ calls = <<>>
    /\ err = "none"
    /\ second \in { NewCall(t, ctx) : t \in TwoCallHistories, ctx \in TwoCallContexts }
    /\ subs_q = NoQueue
    /\ intent_q = NoQueue
    /\ subtitle_task = [ pc |-> "none", i |-> 0 ]
    /\ intent_task = "none"
    /\ video_source = "idle"

\* the detected intent is kept on the instance, not in the call
Switch_SharedIntent ==
    /\ provider = "mock_local"
    /\ second.pc # "idle"
    /\ second' = [ turns |-> turns, world_context |-> world_context, pc |-> pc,
                   events |-> events, intent |-> intent, calls |-> calls, err |-> err ]
    /\ turns' = second.turns
    /\ world_context' = second.world_context
    /\ pc' = second.pc
    /\ events' = second.events
    /\ calls' = second.calls
    /\ err' = second.err
    /\ UNCHANGED <<scoring_vars, validation_vars, session_vars, queue_vars, call_vars,
                   veo_vars, provider, strict,
                   intent>>

\* the running call is suspended and the other call is resumed
Switch ==
    /\ provider = "mock_local"
    /\ second.pc # "idle"
    /\ second' = [ turns |-> turns, world_context |-> world_context, pc |-> pc,
                   events |-> events, intent |-> intent, calls |-> calls, err |-> err ]
    /\ turns' = second.turns
    /\ world_context' = second.world_context
    /\ pc' = second.pc
    /\ events' = second.events
    /\ intent' = second.intent
    /\ calls' = second.calls
    /\ err' = second.err
    /\ UNCHANGED <<scoring_vars, validation_vars, session_vars, queue_vars, call_vars,
                   veo_vars, provider, strict>>

NextTwoCalls == Next \/ Switch

SpecTwoCalls == InitTwoCalls /\ [][NextTwoCalls]_vars

\* what one stream_dialogue call yields when it runs alone: the events, and
\* the exception that ends it ("none" when it returns)
MockPass(t, ctx, s, now, outcome) ==
    LET first == Safety(TRUE, <<"deterministic_mode">>, "info",
                        "Operating in deterministic mock mode")
    IN  IF Len(t) = 0
        THEN [ events |-> << first,
                             NewIntent(SmallTalkModel(ctx, GreetingContent), Rat(1, 1),
                                 [ validation |-> "Initial greeting in diplomatic negotiations" ]) >>,
               err |-> "none" ]
        ELSE
        LET last == t[Len(t)]
            text == last.text
        IN  IF last.speaker_id # ctx.initiator_id
            THEN [ events |-> << first,
                                 Analysis("turn_analysis",
                                     [ turn_type |-> "ai_response",
                                       content_length |-> StrLen(text),
                                       sentiment |-> "neutral" ],
                                     Rat(8, 10)) >>,
                   err |-> "none" ]
            ELSE IF s /\ _contains_unsafe_content(text)
            THEN [ events |-> << first,
                                 Safety(FALSE, <<"unsafe_content">>, "high",
                                        "Strict mode detected potentially unsafe content"),
                                 Analysis("strict_mode_violation",
                                     [ blocked_content |-> IF StrLen(text) > 50
                                                           THEN <<"text[:50]", "...">> ELSE text,
                                       violation_type |-> "unsafe_content",
                                       processing_mode |-> "strict" ],
                                     Rat(9, 10)) >>,
                   err |-> "none" ]
            ELSE IF DetectRaises(text, now) # "none"
            THEN [ events |-> << first >>, err |-> DetectRaises(text, now) ]
            ELSE
            LET detected == _detect_intent_from_text(text, ctx, now)
                r == validate_and_score_intent(detected, ctx, outcome)
            IN  [ events |-> << first,
                                LiveSubtitle(Prefix(text, Len(text) \div 2) \o <<"...">>,
                                             last.speaker_id, FALSE),
                                LiveSubtitle(text, last.speaker_id, TRUE),
                                NewIntent(r.intent, r.confidence, r.justification),
                                Analysis("deterministic_analysis",
                                    [ matched_patterns |-> _get_matched_patterns(text),
                                      intent_detected |-> detected.type,
                                      processing_mode |-> IF s THEN "strict" ELSE "permissive" ],
                                    Rat(85, 100)) >>,
                  err |-> "none" ]

(***************************************************************************)
(* SessionManager (core/session_manager.py).  No method suspends between   *)
(* its first and its last statement, so each call is one step; the cleanup *)
(* task runs one round of its loop per step.                               *)
(***************************************************************************)
MaxTranscript == 1
MaxIntents == 1
MaxTime == 2

SessionIds == {"s1", "s2"}

\* settings.session_timeout_minutes (configurable), in clock units
session_timeout == 1

\* settings.max_concurrent_sessions (configurable, at least 1): with the value
\* 1 two sessions exceed the limit
max_concurrent_sessions == 1

\* intents a client may inject: IntentModel includes SmallTalkModel
InjectedIntents == { [ type |-> "proposal" ], [ type |-> "small_talk" ] }

\* NegotiationSession.__init__
NegotiationSession(session_id, now) ==
    [ session_id |-> session_id, is_active |-> TRUE, transcript |-> << >>,
      intents |-> << >>, mic_enabled |-> FALSE, last_activity |-> now ]

\* NegotiationSession.is_expired
is_expired(session, now) == now - session.last_activity > session_timeout

\* the position of self.sessions.get(session_id), 0 for None
Position(ss, session_id) ==
    IF \E i \in DOMAIN ss : ss[i].session_id = session_id
    THEN CHOOSE i \in DOMAIN ss : ss[i].session_id = session_id
    ELSE 0

\* del self.sessions[session_id]
Delete(ss, i) == SubSeq(ss, 1, i - 1) \o SubSeq(ss, i + 1, Len(ss))

\* NegotiationReportModel.intents admits proposals, concessions, counter-offers
\* and ultimatums: a small_talk intent fails the validation of the report
ReportRaises(session) ==
    \E i \in DOMAIN session.intents : session.intents[i].type = "small_talk"

\* NegotiationReportModel(session_id=..., ...): the id of the session, the
\* sizes of its transcript and of its intents, the outcome
NegotiationReportModel(session) ==
    [ session_id |-> session.session_id,
      turns |-> Len(session.transcript), intents |-> Len(session.intents),
      outcome |-> [ result |-> "partial_success", final_relations |-> 0,
                    agreements |-> << >> ] ]

\* what a call leaves behind: it returns None, returns a report or raises
ReturnsNone == [ kind |-> "None" ]
Returns(report) == [ kind |-> "report", report |-> report ]
Raises(error) == [ kind |-> "raises", error |-> error ]

\* end_session: the sessions it leaves and what it returns
end_session(ss, session_id) ==
    LET i == Position(ss, session_id)
    IN  IF i = 0 THEN [ sessions |-> ss, result |-> ReturnsNone ]
        ELSE LET session == [ ss[i] EXCEPT !.is_active = FALSE ]
                 marked == [ ss EXCEPT ![i] = session ]
             IN  IF ReportRaises(session)
                 THEN [ sessions |-> marked, result |-> Raises("ValidationError") ]
                 ELSE [ sessions |-> Delete(ss, i),
                        result |-> Returns(NegotiationReportModel(session)) ]

\* get_session_report
get_session_report(ss, session_id) ==
    LET i == Position(ss, session_id)
    IN  IF i = 0 THEN ReturnsNone
        ELSE IF ss[i].is_active THEN ReturnsNone
        ELSE IF ReportRaises(ss[i]) THEN Raises("ValidationError")
        ELSE Returns(NegotiationReportModel(ss[i]))

\* for session_id in ids: await self.end_session(session_id), up to the first
\* call that raises
RECURSIVE EndEach(_, _, _)
EndEach(ss, ids, acted) ==
    IF ids = << >> THEN [ sessions |-> ss, acted |-> acted, raised |-> FALSE ]
    ELSE LET r == end_session(ss, Head(ids))
             touched == IF Position(ss, Head(ids)) = 0 THEN acted
                        ELSE acted \cup { Head(ids) }
         IN  IF r.result.kind = "raises"
             THEN [ sessions |-> r.sessions, acted |-> touched, raised |-> TRUE ]
             ELSE EndEach(r.sessions, Tail(ids), touched)

\* the ids of the sessions that satisfy a test, in the order of the dict
RECURSIVE IdsWhere(_, _, _)
IdsWhere(ss, now, expired_only) ==
    IF ss = << >> THEN << >>
    ELSE LET rest == IdsWhere(Tail(ss), now, expired_only)
         IN  IF expired_only => is_expired(Head(ss), now)
             THEN << Head(ss).session_id >> \o rest
             ELSE rest

\* sorted(self.sessions.items(), key=last_activity): insertion of a session
\* into a sorted list, after the sessions that are not younger (stable)
RECURSIVE InsertSorted(_, _)
InsertSorted(sorted, session) ==
    IF sorted = << >> THEN << session >>
    ELSE IF Head(sorted).last_activity <= session.last_activity
         THEN << Head(sorted) >> \o InsertSorted(Tail(sorted), session)
         ELSE << session >> \o sorted

RECURSIVE SortedByActivity(_)
SortedByActivity(ss) ==
    IF ss = << >> THEN << >>
    ELSE InsertSorted(SortedByActivity(SubSeq(ss, 1, Len(ss) - 1)), ss[Len(ss)])

InitSessions ==
    /\ ProviderIdle /\ ScoringIdle /\ ValidationIdle /\ SecondIdle
    /\ SessionIdle /\ QueueIdle /\ CallIdle

not_session_vars == <<provider_vars, scoring_vars, validation_vars, second_vars,
                      queue_vars, call_vars>>

\* time passes
Tick ==
    /\ clock < MaxTime
    /\ clock' = clock + 1
    /\ UNCHANGED <<not_session_vars, sessions, reply, ended>>

CreateSession ==
    \E session_id \in SessionIds :
        /\ IF Position(sessions, session_id) # 0
           THEN /\ reply' = [ op |-> "create_session", session_id |-> session_id,
                              result |-> Raises("ValueError") ]
                /\ UNCHANGED <<sessions, ended>>
           ELSE /\ sessions' = Append(sessions, NegotiationSession(session_id, clock))
                /\ ended' = ended \ { session_id }
                /\ reply' = [ op |-> "create_session", session_id |-> session_id,
                              result |-> ReturnsNone ]
        /\ UNCHANGED <<not_session_vars, clock>>

EndSession ==
    \E session_id \in SessionIds :
        LET r == end_session(sessions, session_id)
        IN  /\ sessions' = r.sessions
            /\ ended' = IF Position(sessions, session_id) = 0 THEN ended
                        ELSE ended \cup { session_id }
            /\ reply' = [ op |-> "end_session", session_id |-> session_id,
                          result |-> r.result ]
            /\ UNCHANGED <<not_session_vars, clock>>

GetSessionReport ==
    \E session_id \in SessionIds :
        /\ reply' = [ op |-> "get_session_report", session_id |-> session_id,
                      result |-> get_session_report(sessions, session_id) ]
        /\ UNCHANGED <<not_session_vars, sessions, ended, clock>>

UpdateMicState ==
    \E session_id \in SessionIds, enabled \in BOOLEAN :
        LET i == Position(sessions, session_id)
        IN  /\ i # 0
            /\ sessions' = [ sessions EXCEPT ![i].mic_enabled = enabled,
                                             ![i].last_activity = clock ]
            /\ UNCHANGED <<not_session_vars, reply, ended, clock>>

HandleTextMessage ==
    \E session_id \in SessionIds :
        LET i == Position(sessions, session_id)
        IN  /\ i # 0
            /\ Len(sessions[i].transcript) < MaxTranscript
            /\ sessions' = [ sessions EXCEPT
                               ![i].transcript = Append(@, SpeakerTurnModel("player", <<"trade">>)),
                               ![i].last_activity = clock ]
            /\ UNCHANGED <<not_session_vars, reply, ended, clock>>

InjectIntents ==
    \E session_id \in SessionIds, injected \in InjectedIntents :
        LET i == Position(sessions, session_id)
        IN  /\ i # 0
            /\ Len(sessions[i].intents) < MaxIntents
            /\ sessions' = [ sessions EXCEPT ![i].intents = Append(@, injected),
                                             ![i].last_activity = clock ]
            /\ UNCHANGED <<not_session_vars, reply, ended, clock>>

\* one round of _cleanup_expired_sessions: the expired sessions are ended,
\* then the oldest sessions above the limit; an exception ends the round
CleanupExpiredSessions ==
    LET expired == EndEach(sessions, IdsWhere(sessions, clock, TRUE), {})
        remaining == expired.sessions
        excess == Len(remaining) - max_concurrent_sessions
        oldest == SortedByActivity(remaining)
        removed == EndEach(remaining,
                           IdsWhere(SubSeq(oldest, 1, excess), clock, FALSE),
                           expired.acted)
        final == IF ~expired.raised /\ excess > 0 THEN removed ELSE expired
    IN  /\ final.sessions # sessions
        /\ sessions' = final.sessions
        /\ ended' = ended \cup final.acted
        /\ UNCHANGED <<not_session_vars, reply, clock>>

NextSessions ==
    \/ Tick
    \/ CreateSession
    \/ EndSession
    \/ GetSessionReport
    \/ UpdateMicState
    \/ HandleTextMessage
    \/ InjectIntents
    \/ CleanupExpiredSessions

SpecSessions == InitSessions /\ [][NextSessions]_vars

(***************************************************************************)
(* BoundedAIO (_backpressure.py) on its own: an asyncio.Queue(maxsize), a  *)
(* closed flag and a sentinel.  asyncio.Queue.put waits while the queue is *)
(* full and asyncio.Queue.get while it is empty: the waiting task appends  *)
(* a future to the queue's list of putters (getters), and a get (put)      *)
(* resolves the first future of the list; the awakened task runs later,    *)
(* tests the queue again and waits again at the end of the list if it      *)
(* must.  A step of a task runs from one suspension to the next.           *)
(***************************************************************************)
MaxSize == 1
MaxPuts == 2
MaxCloses == 2

Producers == {"p1"}
Closers == {"k1"}
Consumers == {"c1", "c2"}
Tasks == Producers \cup Closers \cup Consumers

\* self._sentinel, among items that are positive numbers
Sentinel == 0

\* the task is between two calls
Ready == [ pc |-> "ready", item |-> Sentinel ]

InitQueue ==
    /\ ProviderIdle /\ ScoringIdle /\ ValidationIdle /\ SecondIdle /\ SessionIdle
    /\ CallIdle
    /\ bq = [ items |-> << >>, closed |-> FALSE, putters |-> << >>, getters |-> << >> ]
    /\ tasks = [ t \in Tasks |-> Ready ]
    /\ log = [ next |-> 1, closes |-> 0, accepted |-> << >>, delivered |-> << >>,
               errors |-> 0 ]

not_queue_vars == <<provider_vars, scoring_vars, validation_vars, second_vars, session_vars,
                    call_vars>>

\* asyncio.Queue.full() / empty()
QueueFull(q) == Len(q.items) >= MaxSize
QueueEmpty(q) == q.items = << >>

\* asyncio.Queue._wakeup_next: the first future of the list is resolved
WakeupNext(ts, waiters) ==
    IF waiters = << >> THEN ts
    ELSE [ ts EXCEPT ![Head(waiters)].pc = "woken" ]

\* asyncio.Queue.put_nowait of a queue that is not full
PutNowaitQueue(q) == [ q EXCEPT !.getters = IF @ = << >> THEN @ ELSE Tail(@) ]

\* a task passes 'while self.full()' of asyncio.Queue.put with its item, or
\* appends its future to the putters and waits
QueuePutItem(q, lg, t, item) ==
    IF QueueFull(q)
    THEN /\ bq' = [ q EXCEPT !.putters = Append(@, t) ]
         /\ tasks' = [ tasks EXCEPT ![t] = [ pc |-> "waiting", item |-> item ] ]
         /\ log' = lg
    ELSE /\ bq' = [ PutNowaitQueue(q) EXCEPT !.items = Append(@, item) ]
         /\ tasks' = [ WakeupNext(tasks, q.getters) EXCEPT ![t] = Ready ]
         /\ log' = IF item = Sentinel THEN lg
                   ELSE [ lg EXCEPT !.accepted = Append(@, item) ]

\* a task passes 'while self.empty()' of asyncio.Queue.get and takes the first
\* item, or appends its future to the getters and waits
QueueGetItem(t) ==
    IF QueueEmpty(bq)
    THEN /\ bq' = [ bq EXCEPT !.getters = Append(@, t) ]
         /\ tasks' = [ tasks EXCEPT ![t].pc = "waiting" ]
         /\ log' = log
    ELSE LET item == Head(bq.items)
         IN  /\ bq' = [ bq EXCEPT !.items = Tail(@),
                                  !.putters = IF @ = << >> THEN @ ELSE Tail(@) ]
             /\ tasks' = [ WakeupNext(tasks, bq.putters) EXCEPT
                             ![t].pc = IF item = Sentinel THEN "stopped" ELSE "ready" ]
             /\ log' = IF item = Sentinel THEN log
                       ELSE [ log EXCEPT !.delivered = Append(@, item) ]

\* BoundedAIO.put(item)
QueuePut ==
    \E t \in Producers :
        /\ log.next # 0 /\ tasks[t].pc = "ready"
        /\ log.next <= MaxPuts
        /\ IF bq.closed
           THEN /\ log' = [ log EXCEPT !.next = @ + 1, !.errors = @ + 1 ]
                /\ UNCHANGED <<bq, tasks>>
           ELSE QueuePutItem(bq, [ log EXCEPT !.next = @ + 1 ], t, log.next)
        /\ UNCHANGED not_queue_vars

\* BoundedAIO.put_nowait(item)
QueuePutNowait ==
    \E t \in Producers :
        /\ log.next # 0 /\ tasks[t].pc = "ready"
        /\ log.next <= MaxPuts
        /\ IF bq.closed
           THEN /\ log' = [ log EXCEPT !.next = @ + 1, !.errors = @ + 1 ]
                /\ UNCHANGED <<bq, tasks>>
           ELSE IF QueueFull(bq)
           THEN /\ log' = [ log EXCEPT !.next = @ + 1 ]
                /\ UNCHANGED <<bq, tasks>>
           ELSE QueuePutItem(bq, [ log EXCEPT !.next = @ + 1 ], t, log.next)
        /\ UNCHANGED not_queue_vars

\* BoundedAIO.get()
QueueGet ==
    \E t \in Consumers :
        /\ log.next # 0 /\ tasks[t].pc = "ready"
        /\ IF bq.closed /\ QueueEmpty(bq)
           THEN /\ tasks' = [ tasks EXCEPT ![t].pc = "stopped" ]
                /\ UNCHANGED <<bq, log>>
           ELSE QueueGetItem(t)
        /\ UNCHANGED not_queue_vars

\* BoundedAIO.close()
QueueClose ==
    \E t \in Closers :
        /\ log.next # 0 /\ tasks[t].pc = "ready"
        /\ log.closes < MaxCloses
        /\ IF bq.closed
           THEN /\ log' = [ log EXCEPT !.closes = @ + 1 ]
                /\ UNCHANGED <<bq, tasks>>
           ELSE QueuePutItem([ bq EXCEPT !.closed = TRUE ],
                             [ log EXCEPT !.closes = @ + 1 ], t, Sentinel)
        /\ UNCHANGED not_queue_vars

\* a task whose future was resolved runs again: the loop of asyncio.Queue.put
\* or asyncio.Queue.get tests the queue once more
QueueResume ==
    \E t \in Tasks :
        /\ log.next # 0 /\ tasks[t].pc = "woken"
        /\ IF t \in Consumers THEN QueueGetItem(t)
           ELSE QueuePutItem(bq, log, t, tasks[t].item)
        /\ UNCHANGED not_queue_vars

NextQueue ==
    \/ QueuePut
    \/ QueuePutNowait
    \/ QueueGet
    \/ QueueClose
    \/ QueueResume

SpecQueue == InitQueue /\ [][NextQueue]_vars

(***************************************************************************)
(* calculate_overall_score (_scoring.py)                                   *)
(***************************************************************************)
required_keys == {"trust", "leverage", "face_saving", "confidence"}

\* a value of the score map: absent, not a number, or a number
Absent == [ t |-> "absent", v |-> Rat(0, 1) ]
NonNumeric == [ t |-> "str", v |-> Rat(0, 1) ]
Number(n, d) == [ t |-> "float", v |-> Rat(n, d) ]

ScoreValues ==
    { Absent, NonNumeric, Number(-1, 2), Number(0, 1), Number(1, 2), Number(1, 1),
      Number(3, 2) }

\* the arguments of calculate_overall_score: a dict over the four score keys,
\* or something that is not a dict
ScoreMaps ==
    { [ is_dict |-> TRUE, trust |-> a, leverage |-> b, face_saving |-> c, confidence |-> d ] :
        a \in ScoreValues, b \in ScoreValues, c \in ScoreValues, d \in ScoreValues }
    \cup { [ is_dict |-> FALSE ] }

weights ==
    [ trust |-> Rat(3, 10), leverage |-> Rat(2, 10), face_saving |-> Rat(2, 10),
      confidence |-> Rat(3, 10) ]

\* required_keys - scores.keys()
missing(s) == { key \in required_keys : s[key].t = "absent" }

\* scores[key] * weights[key] if isinstance(scores[key], (int, float))
WeightedTerm(s, key) ==
    IF s[key].t = "float" THEN RMul(s[key].v, weights[key]) ELSE Rat(0, 1)

\* calculate_overall_score(scores): the value returned or the exception raised
calculate_overall_score(s) ==
    IF ~s.is_dict THEN [ raises |-> "TypeError" ]
    ELSE IF missing(s) # {} THEN [ raises |-> "ValueError" ]
    ELSE LET sum == RAdd(RAdd(WeightedTerm(s, "trust"), WeightedTerm(s, "leverage")),
                         RAdd(WeightedTerm(s, "face_saving"), WeightedTerm(s, "confidence")))
         IN  [ raises |-> "none", value |-> RMax(Rat(0, 1), RMin(Rat(1, 1), sum)) ]

InitScoring ==
    /\ ProviderIdle /\ ValidationIdle /\ SecondIdle /\ SessionIdle /\ QueueIdle /\ CallIdle
    /\ scores_in \in ScoreMaps
    /\ overall = [ raises |-> "pending" ]

\* the call of calculate_overall_score(scores)
CalculateOverallScore ==
    /\ overall.raises = "pending"
    /\ overall' = calculate_overall_score(scores_in)
    /\ UNCHANGED <<provider_vars, scores_in, validation_vars, second_vars, session_vars,
                   queue_vars, call_vars>>

NextScoring == CalculateOverallScore

SpecScoring == InitScoring /\ [][NextScoring]_vars


(***************************************************************************)
(* SchemaValidator.validate_or_raise and is_valid (schemas/validators.py)  *)
(***************************************************************************)

MaxViolations == 2

not_call_vars == <<provider_vars, scoring_vars, validation_vars, second_vars, session_vars,
                   queue_vars>>

\* stems of the schema files that _load_schemas may have loaded
SchemaFiles == { "proposal.v1", "proposal", "intent" }

\* schema_name arguments
SchemaNames == { "proposal", "intent", "counter_offer" }

\* error.message of the errors that validator.iter_errors(obj_dict) yields
ErrorMessages ==
    { "'content' is a required property",
      "5 is not of type 'string'",
      "'war' is not one of ['proposal']" }

RECURSIVE ErrorLists(_)
ErrorLists(n) ==
    IF n = 0 THEN { <<>> }
    ELSE LET shorter == ErrorLists(n - 1)
         IN  shorter \cup { Append(e, msg) : e \in shorter, msg \in ErrorMessages }

\* calls of validate_or_raise / is_valid: the loaded schemas, the schema
\* name, and the object given by the errors its validation yields
ValidatorCalls ==
    { [ fn |-> f, _schemas |-> loaded, schema_name |-> n, version |-> "v1", errors |-> e ] :
        f \in {"validate_or_raise", "is_valid"}, loaded \in SUBSET SchemaFiles,
        n \in SchemaNames, e \in ErrorLists(MaxViolations) }

\* f"{schema_name}.{version}"
FullSchemaName(schema_name, version) ==
    CASE schema_name = "proposal" /\ version = "v1" -> "proposal.v1"
      [] schema_name = "intent" /\ version = "v1" -> "intent.v1"
      [] OTHER -> "counter_offer.v1"

\* '; '.join(error_messages)
RECURSIVE Join(_)
Join(messages) ==
    IF Len(messages) = 0 THEN <<>>
    ELSE IF Len(messages) = 1 THEN messages
    ELSE << Head(messages), "; " >> \o Join(Tail(messages))

\* the first message only
validate_or_raise_FirstError(c) ==
    IF FullSchemaName(c.schema_name, c.version) \notin c._schemas
       /\ c.schema_name \notin c._schemas
    THEN [ state |-> "raised", error |-> "KeyError", message |-> <<>> ]
    ELSE IF c.errors # <<>>
    THEN [ state |-> "raised", error |-> "ValidationError",
           message |-> << "Schema validation failed: " >> \o Join(<< Head(c.errors) >>) ]
    ELSE [ state |-> "returned", value |-> "obj_dict" ]

\* SchemaValidator.validate_or_raise
validate_or_raise(c) ==
    IF FullSchemaName(c.schema_name, c.version) \notin c._schemas
       /\ c.schema_name \notin c._schemas
    THEN [ state |-> "raised", error |-> "KeyError", message |-> <<>> ]
    ELSE IF c.errors # <<>>
    THEN [ state |-> "raised", error |-> "ValidationError",
           message |-> << "Schema validation failed: " >> \o Join(c.errors) ]
    ELSE [ state |-> "returned", value |-> "obj_dict" ]

\* SchemaValidator.is_valid
is_valid(c) ==
    LET r == validate_or_raise(c)
    IN  IF r.state = "returned" THEN [ state |-> "returned", value |-> TRUE ]
        ELSE IF r.error \in {"ValidationError", "KeyError"}
        THEN [ state |-> "returned", value |-> FALSE ]
        ELSE r

MaxCount == 2

\* what str(intent) holds: the counts of demand words and of offer words (up
\* to MaxCount), the face-saving phrases found, its length and the tags in it;
\* a string of fewer than 10 characters holds none of them
IntentStrings ==
    { [ demands |-> d, offers |-> o, phrases |-> p, length |-> l, tags |-> t ] :
        d \in 0..MaxCount, o \in 0..MaxCount, p \in 0..5, l \in {210, 300, 600},
        t \in SUBSET {"trade"} }
    \cup { [ demands |-> d, offers |-> o, phrases |-> p, length |-> 100, tags |-> t ] :
             d \in 0..1, o \in 0..1, p \in 0..2, t \in SUBSET {"trade"} }
    \cup { [ demands |-> 0, offers |-> 0, phrases |-> 0, length |-> 6, tags |-> {} ] }

\* world_context.get("scenario_tags", [])
ScenarioTagLists == { <<>>, <<"trade">>, <<"war">>, <<"trade", "war">> }

\* calls of score_intent with a non-empty intent dict and a world-context dict
ScoreIntentCalls ==
    { [ fn |-> "score_intent", type |-> t, str |-> s, scenario_tags |-> g, raises |-> r ] :
        t \in IntentTypes \cup {"", "threat"}, s \in IntentStrings, g \in ScenarioTagLists,
        r \in BOOLEAN }

MaxWords == 2

\* words of the content given to check_content
SafetyWords ==
    { "hello", "hate", "kill", "attack", "damn", "fucking", "discriminate",
      "john@example.com", "weather" }

RECURSIVE SafetyContents(_)
SafetyContents(n) ==
    IF n = 0 THEN { <<>> }
    ELSE LET shorter == SafetyContents(n - 1)
         IN  shorter \cup { Append(c, w) : c \in shorter, w \in SafetyWords }

\* the words of SafetyWords that a pattern of the list matches (re.search with
\* \b on both sides: the whole word; the e-mail pattern: the address)
hate_speech_patterns == { "hate", "kill" }

violence_patterns == { "kill", "attack" }

profanity_patterns == { "damn" }

personal_info_patterns == { "john@example.com" }

\* the words of SafetyWords in which an off-topic keyword occurs
off_topic_keywords == { "weather" }

\* _contains_pattern / _is_off_topic
_contains_pattern(content, matched) == \E i \in DOMAIN content : content[i] \in matched

\* the model that check_content returns, flags and severity as computed
ContentSafetyModel(flags, severity) ==
    LET safe == Len(flags) = 0
    IN  [ is_safe |-> safe, flags |-> flags,
          severity |-> IF ~safe THEN severity ELSE None,
          reason |-> IF ~safe THEN "Content flagged by safety filter" ELSE None ]

\* violence and off_topic set "medium" whatever the severity so far
check_content_LastFlagWins(content) ==
    LET f1 == IF _contains_pattern(content, hate_speech_patterns) THEN <<"hate_speech">> ELSE <<>>
        s1 == IF f1 # <<>> THEN "high" ELSE "low"
        violent == _contains_pattern(content, violence_patterns)
        f2 == IF violent THEN Append(f1, "violence") ELSE f1
        s2 == IF violent THEN "medium" ELSE s1
        f3 == IF _contains_pattern(content, profanity_patterns) THEN Append(f2, "profanity") ELSE f2
        personal == _contains_pattern(content, personal_info_patterns)
        f4 == IF personal THEN Append(f3, "personal_information") ELSE f3
        s4 == IF personal THEN "high" ELSE s2
        off == _contains_pattern(content, off_topic_keywords)
        f5 == IF off THEN Append(f4, "off_topic") ELSE f4
        s5 == IF off THEN "medium" ELSE s4
    IN  ContentSafetyModel(f5, s5)

\* ContentSafetyFilter.check_content
check_content(content) ==
    LET f1 == IF _contains_pattern(content, hate_speech_patterns) THEN <<"hate_speech">> ELSE <<>>
        s1 == IF f1 # <<>> THEN "high" ELSE "low"
        violent == _contains_pattern(content, violence_patterns)
        f2 == IF violent THEN Append(f1, "violence") ELSE f1
        s2 == IF violent /\ s1 = "low" THEN "medium" ELSE s1
        f3 == IF _contains_pattern(content, profanity_patterns) THEN Append(f2, "profanity") ELSE f2
        personal == _contains_pattern(content, personal_info_patterns)
        f4 == IF personal THEN Append(f3, "personal_information") ELSE f3
        s4 == IF personal THEN "high" ELSE s2
        off == _contains_pattern(content, off_topic_keywords)
        f5 == IF off THEN Append(f4, "off_topic") ELSE f4
        s5 == IF off /\ s4 = "low" THEN "medium" ELSE s4
    IN  ContentSafetyModel(f5, s5)

ContentCalls == { [ fn |-> "check_content", content |-> c ] : c \in SafetyContents(MaxWords) }

PureCalls == ValidatorCalls \cup ScoreIntentCalls \cup ContentCalls

InitCalls ==
    /\ ProviderIdle /\ ScoringIdle /\ ValidationIdle /\ SecondIdle /\ SessionIdle /\ QueueIdle
    /\ pure_call \in PureCalls
    /\ pure_reply = [ state |-> "idle" ]

ValidateOrRaise ==
    /\ pure_call.fn = "validate_or_raise"
    /\ pure_reply.state = "idle"
    /\ pure_reply' = validate_or_raise(pure_call)
    /\ UNCHANGED <<not_call_vars, pure_call>>

IsValid ==
    /\ pure_call.fn = "is_valid"
    /\ pure_reply.state = "idle"
    /\ pure_reply' = is_valid(pure_call)
    /\ UNCHANGED <<not_call_vars, pure_call>>

ScoreIntent ==
    /\ pure_call.fn = "score_intent"
    /\ pure_reply.state = "idle"
    /\ pure_reply' =
         [ state |-> "returned",
           value |-> score_intent_dict(pure_call.type, pure_call.str, pure_call.scenario_tags,
                                       pure_call.raises) ]
    /\ UNCHANGED <<not_call_vars, pure_call>>

CheckContent ==
    /\ pure_call.fn = "check_content"
    /\ pure_reply.state = "idle"
    /\ pure_reply' = [ state |-> "returned", value |-> check_content(pure_call.content) ]
    /\ UNCHANGED <<not_call_vars, pure_call>>

NextCalls ==
    \/ ValidateOrRaise
    \/ IsValid
    \/ ScoreIntent
    \/ CheckContent

SpecCalls == InitCalls /\ [][NextCalls]_vars


(***************************************************************************)
(* Properties of a MockLocalProvider pass                                  *)
(***************************************************************************)
Count(kind) == Cardinality({ i \in DOMAIN events : events[i].kind = kind })

Finished == pc \in {"done", "raised"}

\* the input words in which an unsafe-content pattern occurs
UnsafeWords == {"WAR", "kill"}
UnsafeText(text) == \E i \in DOMAIN text : text[i] \in UnsafeWords

\* strict mode blocks the pass: a player turn with unsafe text, strict on
StrictBlockPath ==
    /\ Len(turns) > 0
    /\ last_turn.speaker_id = world_context.initiator_id
    /\ strict
    /\ UnsafeText(last_turn.text)

C2_ExactlyOneAnalysisLast ==
    provider = "mock_local" /\ Finished =>
        /\ Len(events) >= 2
        /\ events[Len(events)].kind = "analysis"
        /\ Count("analysis") = 1

\* C3: a pass emits at most one intent event and no subtitle event after it.
C3_IntentAfterSubtitles ==
    provider = "mock_local" =>
        /\ Count("intent") <= 1
        /\ \A i, j \in DOMAIN events :
              i < j /\ events[i].kind = "intent" => events[j].kind # "subtitle"

C3_Witness ==
    /\ provider = "mock_local" /\ pc = "done"
    /\ \E i, j \in DOMAIN events :
          /\ i < j
          /\ events[i].kind = "subtitle" /\ events[i].is_final
          /\ events[j].kind = "intent"

\* C4: with strict on and unsafe text in the last turn, the pass emits no
\* intent event and no subtitle event.
C4_StrictUnsafeNoIntent ==
    provider = "mock_local" /\ strict /\ Len(turns) > 0 /\ UnsafeText(last_turn.text) =>
        Count("intent") = 0 /\ Count("subtitle") = 0

C4_Witness ==
    /\ provider = "mock_local" /\ pc = "done" /\ StrictBlockPath
    /\ \E i \in DOMAIN events : events[i].kind = "safety" /\ events[i].severity = "high"

\* C5: with strict on and unsafe text in the last turn of a non-empty history,
\* a finished pass contains a safety event of severity "high", whoever the
\* speaker of the last turn is.
C5_StrictCheckFirst ==
    provider = "mock_local" /\ Finished /\ strict /\ Len(turns) > 0
        /\ UnsafeText(last_turn.text) =>
        \E i \in DOMAIN events : events[i].kind = "safety" /\ events[i].severity = "high"

\* the intent kind each pattern stands for
KindOfPattern ==
    [ counter_offer |-> "counter_offer", ultimatum |-> "ultimatum", trade |-> "proposal",
      aggressive |-> "ultimatum", cooperative |-> "concession" ]

Matching(text) == { n \in 1..Len(PatternNames) : Search(_patterns[PatternNames[n]], text) }

ExpectedKind(text) ==
    LET matching == Matching(text)
    IN  IF matching = {} THEN "small_talk"
        ELSE KindOfPattern[PatternNames[CHOOSE n \in matching : \A m \in matching : n <= m]]

Subtitles == { i \in DOMAIN events : events[i].kind = "subtitle" }

\* C8: in a pass with subtitles no subtitle follows a final one, a finished
\* pass has exactly one final subtitle, and every subtitle carries the
\* speaker_id of the classified turn.
C8_InterimThenFinal ==
    provider = "mock_local" =>
        /\ \A i, j \in Subtitles : i < j => ~events[i].is_final
        /\ \A i \in Subtitles : events[i].speaker_id = last_turn.speaker_id
        /\ (Finished /\ Subtitles # {} =>
              Cardinality({ i \in Subtitles : events[i].is_final }) = 1)

C8_Witness ==
    /\ provider = "mock_local" /\ pc = "done"
    /\ \E i, j \in Subtitles : i < j /\ ~events[i].is_final /\ events[j].is_final

\* the turn the subtitles of a pass are made from
SubtitledTurn ==
    IF provider = "veo3" THEN player_turns[Len(player_turns)] ELSE last_turn

IsSubtitle(e) == IF provider = "veo3" THEN e.type = "subtitle" ELSE e.kind = "subtitle"

SubtitleOf(e) == IF provider = "veo3" THEN e.payload ELSE e

SubtitleEvents == { i \in DOMAIN events : IsSubtitle(events[i]) }

\* every subtitle the pass produces has been emitted
SubtitlesDelivered ==
    IF provider = "veo3"
    THEN pc = "subs" /\ subtitle_task.pc = "done" /\ subs_q.items = <<>>
    ELSE pc = "done"

C11_CompletesWithoutRaising ==
    provider = "mock_local" =>
        /\ pc # "raised"
        /\ err = "none"
        /\ (/\ pc = "done" /\ Len(turns) > 0
            /\ ~IsAiTurn /\ ~StrictViolation
            /\ Matching(last_turn.text) = {}) =>
              \E i \in DOMAIN events :
                 events[i].kind = "intent" /\ events[i].intent.type = "small_talk"

\* a Veo3 pass whose tasks and whose consumer keep running: every step of
\* the producer tasks, of _yield_events and of the finally block that stays
\* possible is eventually taken; the consumer never gives the stream up unless
\* it chooses to
FairSpecVeo3 ==
    /\ SpecVeo3
    /\ WF_vars(VeoStreamDialogue)
    /\ WF_vars(VeoStreamSubtitles)
    /\ WF_vars(VeoDetectIntents)
    /\ WF_vars(VeoMockFunctionCall)
    /\ WF_vars(VeoYieldEvents)
    /\ WF_vars(VeoFinally)

\* C12: every Veo3 stream_dialogue call on a finite turn list eventually
\* completes: the consumer gets past the subtitle and intent queues and the
\* generator runs to its end
C12_StreamCompletes == <>(pc = "done")

\* the intent events whose justification reports a failed validation
FailedValidations ==
    { i \in DOMAIN events :
        /\ events[i].kind = "intent"
        /\ events[i].justification.validation = "Validation failed" }

Incomplete(s) ==
    \/ ~s.is_dict
    \/ \E key \in required_keys : s[key].t # "float"

\* C14: calculate_overall_score never raises, its result lies in [0, 1], and
\* it is exactly 0.3 when a required key is missing or not a number
C14_FailsClosed ==
    overall.raises \notin {"idle", "pending"} =>
        /\ overall.raises = "none"
        /\ ~RLess(overall.value, Rat(0, 1)) /\ ~RLess(Rat(1, 1), overall.value)
        /\ Incomplete(scores_in) => overall.value = Rat(3, 10)

\* a confidence of the mock provider lies in [0.1, 1.0]
InConfidenceRange(c) == ~RLess(c, Rat(1, 10)) /\ ~RLess(Rat(1, 1), c)

\* C15: every confidence the mock provider attaches to an intent (on the
\* intent events of a pass: scored, fallback or greeting; and in the result of
\* validate_and_score_intent for every content length and tag list) lies in
\* [0.1, 1.0]
C15_ConfidenceRange ==
    /\ provider = "mock_local" =>
          \A i \in DOMAIN events :
             events[i].kind = "intent" => InConfidenceRange(events[i].confidence)
    /\ score_reply.state = "returned" => InConfidenceRange(score_reply.result.confidence)

\* validate_and_score_intent has scored a short content that shares every
\* keyword with the scenario tags
C15_Witness ==
    /\ score_reply.state = "returned"
    /\ score_call.outcome = "valid"
    /\ StrLen(score_call.intent.content) < 10
    /\ Keywords(score_call.intent.content) \subseteq Keywords(score_call.world_context.scenario_tags)
    /\ Len(score_call.intent.content) > 0

\* C16: a player turn that matches the counter-offer pattern yields a
\* counter-offer intent whose event carries a confidence of at least 0.7,
\* whatever the scenario tags of the world context
C16_CounterOfferConfidence ==
    (/\ provider = "mock_local" /\ Len(turns) > 0
     /\ Search(_patterns.counter_offer, last_turn.text)) =>
        \A i \in DOMAIN events :
           events[i].kind = "intent" =>
              /\ events[i].intent.type = "counter_offer"
              /\ ~RLess(events[i].confidence, Rat(7, 10))

\* a call has returned or raised
CallEnded(p) == p = "done" \/ p = "raised"

\* the terms of an intent, where its model has them
TermsOf(i) ==
    IF i.type = "proposal" THEN [ terms |-> i.terms ]
    ELSE IF i.type = "counter_offer" THEN [ terms |-> i.counter_terms ]
    ELSE [ terms |-> << >> ]

\* the kind of an event and, for an intent event, the type, content and terms
\* of its intent
Outline(evs) ==
    [ n \in DOMAIN evs |->
        IF evs[n].kind = "intent"
        THEN [ kind |-> "intent", type |-> evs[n].intent.type,
               content |-> evs[n].intent.content, terms |-> TermsOf(evs[n].intent) ]
        ELSE [ kind |-> evs[n].kind, type |-> "none", content |-> << >>,
               terms |-> [ terms |-> << >> ] ] ]

\* C17: two runs of stream_dialogue with the same turns, world context and
\* strict flag yield the same sequence of event kinds, and intents of the same
\* type, content and terms
C17_Deterministic ==
    (/\ provider = "mock_local" /\ second.pc # "idle"
     /\ CallEnded(pc) /\ CallEnded(second.pc)
     /\ turns = second.turns /\ world_context = second.world_context) =>
        Outline(events) = Outline(second.events)

\* the same two runs, neither of which raised
C17_SameWhenReturned ==
    (/\ provider = "mock_local" /\ second.pc # "idle"
     /\ pc = "done" /\ second.pc = "done"
     /\ turns = second.turns /\ world_context = second.world_context) =>
        Outline(events) = Outline(second.events)

\* C19: each of two calls on one instance, interleaved at the suspension
\* points, yields what a call with its arguments yields alone: at every
\* moment a prefix of such a run, and the whole of it once the call has ended
AloneRuns ==
    [ t \in TwoCallHistories, ctx \in TwoCallContexts, s \in BOOLEAN |->
        { MockPass(t, ctx, s, now, outcome) : now \in Hours, outcome \in SchemaOutcomes } ]

Alone(t, ctx, p, evs, e) ==
    \E run \in AloneRuns[t, ctx, strict] :
        IF CallEnded(p)
        THEN evs = run.events /\ e = run.err
        ELSE /\ Len(evs) <= Len(run.events)
             /\ evs = SubSeq(run.events, 1, Len(evs))
             /\ e = "none"

C19_CallsIsolated ==
    provider = "mock_local" =>
        /\ Alone(turns, world_context, pc, events, err)
        /\ second.pc # "idle" =>
              Alone(second.turns, second.world_context, second.pc, second.events, second.err)

\* both calls have ended after being interleaved: each yielded an intent event
\* while the other was suspended between its own subtitle and intent events
C19_Witness ==
    /\ provider = "mock_local" /\ second.pc = "done" /\ pc = "done"
    /\ turns # second.turns
    /\ Len(events) = 5 /\ Len(second.events) = 5
    /\ events[4].intent.type = "proposal"
    /\ second.events[4].intent.type = "ultimatum"

\* the severities the safety payload admits
Severities == {"low", "medium", "high", None}

\* C18: every safety event a provider emits (the mock provider's initial and
\* strict-mode events, the Veo3 provider's error and content-violation events)
\* carries a severity among "low", "medium", "high" and null
C18_SeverityDomain ==
    \A i \in DOMAIN events :
        IF provider = "mock_local"
        THEN events[i].kind = "safety" => events[i].severity \in Severities
        ELSE events[i].type = "safety" => events[i].payload.severity \in Severities

\* C20: get_session_report returns None for a session that is active, and
\* for a session on which end_session has acted it returns a report whose
\* session_id is the id of that session
C20_ReportAfterEnd ==
    reply.op = "get_session_report" =>
        LET i == Position(sessions, reply.session_id)
        IN  /\ (i # 0 /\ sessions[i].is_active) => reply.result = ReturnsNone
            /\ reply.session_id \in ended =>
                  /\ reply.result.kind = "report"
                  /\ reply.result.report.session_id = reply.session_id

\* the last turn is a player turn whose classification is an ultimatum: the
\* ultimatum pattern, or the aggressive pattern, is the first that matches
ClassifiedAsUltimatum ==
    /\ provider = "mock_local" /\ Len(turns) > 0
    /\ ~IsAiTurn /\ ~StrictViolation
    /\ pc \notin {"start", "checked"}
    /\ ExpectedKind(last_turn.text) = "ultimatum"

\* C21: at every hour of the day at which a player turn matching the ultimatum
\* (or the aggressive) pattern is classified, the classification does not
\* raise and gives an ultimatum whose deadline is later than its timestamp and
\* whose list of consequences is not empty
C21_UltimatumAtEveryHour ==
    ClassifiedAsUltimatum =>
        /\ err = "none"
        /\ intent.type = "ultimatum"
        /\ intent.deadline > intent.timestamp
        /\ Len(intent.consequences) > 0

\* the ended pass has yielded what a pass over its last turn alone yields at
\* the same reading of the clock and with the same answer of the validator
SameAsLastTurnAlone ==
    \E now \in Hours :
        /\ intent.type = "ultimatum" => now = intent.timestamp
        /\ \E outcome \in SchemaOutcomes :
              LET run == MockPass(<< turns[Len(turns)] >>, world_context, strict, now, outcome)
              IN  events = run.events /\ err = run.err

\* C22: only the last turn is classified: a pass over a history yields the
\* events (kinds, intent type and content included) of a pass over its last
\* turn alone, with the same world context and strict flag; earlier turns
\* never change the outcome
C22_OnlyLastTurn ==
    (provider = "mock_local" /\ Len(turns) > 0 /\ Finished) => SameAsLastTurnAlone

\* a finished pass over a history whose earlier turn matches the aggressive
\* pattern and whose last turn is classified as a proposal
C22_Witness ==
    /\ provider = "mock_local" /\ pc = "done" /\ Len(turns) = 2
    /\ ExpectedKind(turns[1].text) = "ultimatum"
    /\ ExpectedKind(turns[2].text) = "proposal"
    /\ \E i \in DOMAIN events :
          events[i].kind = "intent" /\ events[i].intent.type = "proposal"

\* the events of a Veo3 pass are in order: no subtitle after an intent, nothing
\* but the end after the analysis, one intent at most
VeoOrdered ==
    /\ \A i, j \in DOMAIN events :
          i < j => /\ ~(events[i].type = "intent" /\ events[j].type = "subtitle")
                   /\ events[i].type # "analysis"
    /\ Cardinality({ i \in DOMAIN events : events[i].type = "intent" }) <= 1

AnalysisYielded == \E i \in DOMAIN events : events[i].type = "analysis"

\* C23: a Veo3 pass yields every subtitle before any intent, at most one
\* intent, and the analysis event after all of them, whatever the relative
\* speed of the two producer tasks; a pass that is not abandoned by its
\* consumer and does not fail gets as far as the analysis event
C23_OrderedStream ==
    /\ [](VeoOrdered)
    /\ <>(AnalysisYielded \/ pc \in {"cleanup", "close_blocked", "done"})

\* the order alone: it holds of every reachable state
C23_OrderOnly == provider = "veo3" => VeoOrdered

\* the intent producer has finished first: its intent waits in intent_q while
\* subtitles are being yielded
C23_IntentWaits ==
    /\ provider = "veo3" /\ pc = "subs"
    /\ Len(intent_q.items) > 0
    /\ \E i \in DOMAIN events : events[i].type = "subtitle"

\* WF on the steps of the tasks that use the queue: a consumer that may call
\* get calls it, and an awakened task runs
FairSpecQueue ==
    /\ SpecQueue
    /\ WF_vars(QueueGet)
    /\ WF_vars(QueueResume)

\* C24: once close() was called, every consumer that waits in get() or calls
\* get() receives StopAsyncIteration after the buffered items are drained:
\* also when the queue was empty at the call and when two consumers wait
C24_ConsumersStop ==
    [](bq.closed => <>(\A c \in Consumers : tasks[c].pc = "stopped"))

\* C25: close() returns without waiting for room for the sentinel, and a
\* second close() is a no-op: a task in close() is never suspended
C25_CloseReturns ==
    log.next # 0 => \A k \in Closers : tasks[k].pc = "ready"

\* a consumer has seen StopAsyncIteration
SomeStopped == \E c \in Consumers : tasks[c].pc = "stopped"

\* the first n elements of a sequence
FirstN(seq, n) == SubSeq(seq, 1, n)

\* C26: the items whose put completed are delivered once each, in the order
\* of their puts, before a consumer sees StopAsyncIteration; a put on a closed
\* queue raises and enqueues nothing; the buffer never holds more than maxsize
\* items
C26_DeliveredOnceInOrder ==
    log.next # 0 =>
        /\ Len(bq.items) <= MaxSize
        /\ Len(log.delivered) <= Len(log.accepted)
        /\ log.delivered = FirstN(log.accepted, Len(log.delivered))
        /\ SomeStopped => log.delivered = log.accepted
        /\ Len(log.accepted) + log.errors <= log.next - 1

\* the generator has left stream_dialogue, or is held in its finally block,
\* after the queues were created
VeoExited == provider = "veo3" /\ ~IsNone(subs_q) /\ pc \in {"done", "close_blocked"}

C27_FailedStartStreams ==
    /\ provider = "veo3"
    /\ pc = "subs"
    /\ video_source = "failed"
    /\ \E i \in DOMAIN events : events[i].type = "subtitle" /\ events[i].payload.is_final

\* some loaded schema answers to the call's schema name
SchemaFound ==
    \/ FullSchemaName(pure_call.schema_name, pure_call.version) \in pure_call._schemas
    \/ pure_call.schema_name \in pure_call._schemas

InSeq(x, seq) == \E i \in DOMAIN seq : seq[i] = x

\* C28: a failed validate_or_raise raises ValidationError whose message holds
\* the message of every violation, a missing schema raises KeyError, and
\* is_valid returns False in both cases and never raises
C28_AllViolationsReported ==
    (pure_call.fn \in {"validate_or_raise", "is_valid"} /\ pure_reply.state # "idle") =>
        /\ (pure_call.fn = "validate_or_raise" /\ ~SchemaFound) =>
             pure_reply.state = "raised" /\ pure_reply.error = "KeyError"
        /\ (pure_call.fn = "validate_or_raise" /\ SchemaFound /\ pure_call.errors # <<>>) =>
             /\ pure_reply.state = "raised"
             /\ pure_reply.error = "ValidationError"
             /\ \A i \in DOMAIN pure_call.errors : InSeq(pure_call.errors[i], pure_reply.message)
        /\ pure_call.fn = "is_valid" =>
             /\ pure_reply.state = "returned"
             /\ pure_reply.value = (SchemaFound /\ pure_call.errors = <<>>)

\* a validation with two different violations has raised
C28_TwoViolations ==
    /\ pure_call.fn = "validate_or_raise"
    /\ SchemaFound
    /\ Len(pure_call.errors) = 2
    /\ pure_call.errors[1] # pure_call.errors[2]
    /\ pure_reply.state = "raised"

InUnitRange(x) == ~RLess(x, Rat(0, 1)) /\ ~RLess(Rat(1, 1), x)

\* C29: score_intent returns four fields in [0.0, 1.0] for every non-empty
\* intent dict and world-context dict, and 0.3 in all four when a step raises
C29_ScoresBounded ==
    (pure_call.fn = "score_intent" /\ pure_reply.state # "idle") =>
        /\ pure_reply.state = "returned"
        /\ DOMAIN pure_reply.value = {"trust", "leverage", "face_saving", "confidence"}
        /\ \A key \in DOMAIN pure_reply.value : InUnitRange(pure_reply.value[key])
        /\ pure_call.raises =>
             \A key \in DOMAIN pure_reply.value : pure_reply.value[key] = Rat(3, 10)

\* a call in which a step raised has returned
C29_RaisedInside ==
    /\ pure_call.fn = "score_intent"
    /\ pure_call.raises
    /\ pure_call.type = "counter_offer"
    /\ pure_reply.state = "returned"

\* a call whose face-saving bonus and alignment reach the upper clamp
C29_AtUpperBound ==
    /\ pure_call.fn = "score_intent"
    /\ ~pure_call.raises
    /\ pure_reply.state = "returned"
    /\ pure_reply.value.face_saving = Rat(1, 1)
    /\ pure_reply.value.trust = Rat(1, 1)

\* the severity the claim gives to a category
CategorySeverity(flag) ==
    CASE flag \in {"hate_speech", "personal_information"} -> "high"
      [] flag \in {"violence", "off_topic"} -> "medium"
      [] OTHER -> "low"

SeverityRank(severity) ==
    CASE severity = "high" -> 3
      [] severity = "medium" -> 2
      [] OTHER -> 1

C30_ViolenceOnly ==
    /\ pure_call.fn = "check_content"
    /\ pure_reply.state = "returned"
    /\ pure_reply.value.flags = <<"violence">>
    /\ pure_reply.value.severity = "medium"

====
